---- MODULE Spec2Model ----
(***************************************************************************)
(* Verification model of zpix1/weather-cvet1.                              *)
(*                                                                         *)
(* The repository holds two independent programs:                          *)
(*   - src/src/loader.py + src/src/webserver.py: a loader that backfills   *)
(*     two series tables (temperature_data, humidity_data) from a remote   *)
(*     history API, and a web server that answers range queries on them;   *)
(*   - src/data_fetcher.py + src/database.py + src/ha_client.py: a         *)
(*     scheduler that polls the remote and stores rows in weather_data.    *)
(*                                                                         *)
(* Time is counted in ticks, Sub ticks to the second; a naive datetime is  *)
(* its tick count, an aware datetime is a wall clock plus a UTC offset.    *)
(***************************************************************************)
EXTENDS Integers, Sequences, FiniteSets, TLC

VARIABLES
    now,        \* the wall clock (UTC ticks): datetime.now()
    table,      \* loader database: series name -> rows in rowid order
    ret,        \* value returned by the last store_temperature / store_humidity
    lastStore,  \* what the last store call met: [op, dup, err]
    qres,       \* the call being served: its inputs and its result
    remote,     \* the remote history: series name -> state records, oldest first
    lpc,        \* loader: "boot", "fetch", "store", "sleep" or "raised"
    plan,       \* loader: the calls left in load_last_month_data / run
    win,        \* loader: start_time, end_time and max_days of the fetch
    current_start,        \* fetch_historical_data: start of the next sub-window
    all_historical_data,  \* fetch_historical_data: the points collected so far
    sensor_data,          \* temp_data / humidity_data of the running operation
    idx,        \* store_sensor_data: position in its input
    stored,     \* store_sensor_data: counter of inserts that returned true
    skipped,    \* store_sensor_data: counter of inserts that returned false
    counts,     \* series -> <<stored, skipped>> returned by store_sensor_data
    nops,       \* operations (load_last_month_data, run) started so far
    requests,   \* sub-windows requested by the running fetch_historical_data
    okChunks,   \* requests of the running fetch that were answered
    validReturned,   \* series -> well-formed records answered in this operation
    failedReqs,      \* requests of this operation that failed
    tableAtOpStart,  \* the tables when the running operation started
    storeErr,        \* an insert of the running operation hit a store error
    cleanBefore,     \* the earlier operations met no failed request or insert
    is_running,      \* scheduler: WeatherDataFetcher.is_running
    weather_data,    \* scheduler database: the rows of weather_data in rowid order
    metadata,        \* scheduler database: the rows of the metadata table
    last_fetch_time, \* scheduler: WeatherDataFetcher.last_fetch_time
    fetch_lock,      \* scheduler: the job holding fetch_lock, or "free"
    jpc,             \* scheduler: job id -> position of the job
    historical_data, \* scheduler: historical_data / humidity_data being stored
    hidx,            \* scheduler: position in historical_data
    stored_count,    \* scheduler: stored_count of the running loop
    njobs,           \* scheduler: job runs started so far
    db_errors,       \* scheduler: database statements that failed so far
    history_calls,   \* scheduler: the get_entity_history calls of each job run
    missing,         \* scheduler: the required parameters the configuration lacks
    scheduler        \* scheduler: the BackgroundScheduler: "stopped", "running",
                     \* or "shutdown" while shutdown() waits for the running jobs

storeVars == <<table, ret, lastStore>>
fetchVars == <<win, current_start, all_historical_data, requests, okChunks>>
loaderVars == <<lpc, plan, sensor_data, idx, stored, skipped, counts, nops,
                validReturned, failedReqs, tableAtOpStart,
                storeErr, cleanBefore>>
schedVars == <<is_running, weather_data, metadata, last_fetch_time, fetch_lock,
               jpc, historical_data, hidx, stored_count, njobs, db_errors,
               history_calls, missing, scheduler>>
vars == <<now, table, ret, lastStore, qres, remote, fetchVars, loaderVars, schedVars>>

----------------------------------------------------------------------------
(* Units and bounds *)

Sub == 2                     \* ticks per second (resolution of the model clock)
Second == Sub
Hour == 3600 * Second
Day == 24 * Hour
Base == 40 * Day             \* the instant the model clock starts at

TzOffsetHours == 7           \* Asia/Novosibirsk, UTC+7
TzOffset == TzOffsetHours * Hour

MaxVal == 2                  \* sensor values are 1..MaxVal
MaxRows == 2                 \* rows stored by direct store calls, both tables
MaxClock == 1                \* ticks the clock advances in the query model
PoolSpan == 1                \* stored instants lie 0..PoolSpan ticks after an anchor

Values == 1..MaxVal
Series == {"temperature", "humidity"}

----------------------------------------------------------------------------
(* Datetimes and their text forms *)

\* sqlite3's default datetime adapter: 'YYYY-MM-DD HH:MM:SS[.ffffff]'
adapt_datetime(t) == [sec |-> t \div Sub, frac |-> t % Sub]

\* datetime.isoformat(): the same fields with a 'T' separator
isoformat(t) == [sec |-> t \div Sub, frac |-> t % Sub]

\* datetime.fromisoformat() of a stored text
fromisoformat(x) == x.sec * Sub + x.frac

\* SQLite datetime(x): 'YYYY-MM-DD HH:MM:SS', the fraction is dropped
sql_datetime(x) == x.sec

\* an aware datetime: wall clock and UTC offset, both in ticks
Aware(wall, off) == [wall |-> wall, off |-> off]
Instant(a) == a.wall - a.off
astimezone(a, off) == [wall |-> Instant(a) + off, off |-> off]
localize_utc(t) == [wall |-> t, off |-> 0]
replace_tzinfo_none(a) == a.wall
\* comparison of aware datetimes is by instant
aware_lt(a, b) == Instant(a) < Instant(b)

\* datetime.now(self.tz)
now_tz(clock) == astimezone(localize_utc(clock), TzOffset)

----------------------------------------------------------------------------
(* The series tables of the loader database *)

Keys(rows) == {rows[i].timestamp : i \in 1..Len(rows)}
CountRows(rows, x) == Cardinality({i \in 1..Len(rows) : rows[i].timestamp = x})
ValueAt(rows, x) == rows[CHOOSE i \in 1..Len(rows) : rows[i].timestamp = x].value

\* INSERT OR REPLACE: a conflicting row is overwritten
InsertReplace(rows, x, v) ==
    IF x \in Keys(rows)
    THEN [rows |-> [i \in 1..Len(rows) |->
                      IF rows[i].timestamp = x
                      THEN [timestamp |-> x, value |-> v] ELSE rows[i]],
          rowcount |-> 1]
    ELSE [rows |-> Append(rows, [timestamp |-> x, value |-> v]), rowcount |-> 1]

\* INSERT OR IGNORE INTO <series>_data (timestamp, value): the primary key is
\* the timestamp text; a conflicting row is ignored.  rowcount is the number
\* of rows written.
InsertOrIgnore(rows, x, v) ==
    IF x \in Keys(rows)
    THEN [rows |-> rows, rowcount |-> 0]
    ELSE [rows |-> Append(rows, [timestamp |-> x, value |-> v]), rowcount |-> 1]

\* the store call answering True whenever the statement ran
StoreIntoAlwaysTrue(s, value, timestamp, err) ==
    LET x == adapt_datetime(timestamp)
        r == InsertOrIgnore(table[s], x, value)
    IN  /\ lastStore' = [op |-> s, dup |-> x \in Keys(table[s]), err |-> err]
        /\ IF err
           THEN table' = table /\ ret' = FALSE
           ELSE /\ table' = [table EXCEPT ![s] = r.rows]
                /\ ret' = TRUE

\* store_temperature / store_humidity (value, timestamp); err: the statement
\* raises sqlite3.Error (locked or unwritable database), caught at the call.
StoreInto(s, value, timestamp, err) ==
    LET x == adapt_datetime(timestamp)
        r == InsertOrIgnore(table[s], x, value)
    IN  /\ lastStore' = [op |-> s, dup |-> x \in Keys(table[s]), err |-> err]
        /\ IF err
           THEN table' = table /\ ret' = FALSE
           ELSE /\ table' = [table EXCEPT ![s] = r.rows]
                /\ ret' = (r.rowcount > 0)

store_temperature(value, timestamp, err) == StoreInto("temperature", value, timestamp, err)
store_humidity(value, timestamp, err) == StoreInto("humidity", value, timestamp, err)

----------------------------------------------------------------------------
(* The range query of the web server *)

NoData == [kind |-> "None"]
Periods == {"24h", "week", "month"}
PeriodInputs == Periods \cup {"bogus"}
DataTypes == {"temperature", "humidity", "temp_hum"}

\* WHERE datetime(timestamp) >= datetime(?) AND datetime(timestamp) <= datetime(?)
InRange(row, lo, hi) ==
    /\ sql_datetime(row.timestamp) >= sql_datetime(lo)
    /\ sql_datetime(row.timestamp) <= sql_datetime(hi)

\* ORDER BY datetime(timestamp) ASC over the rows scanned in rowid order:
\* rows with equal datetime() keep their scan order.
InsertByDatetime(sorted, r) ==
    LET k == Cardinality({i \in 1..Len(sorted) :
                 sql_datetime(sorted[i].timestamp) <= sql_datetime(r.timestamp)})
    IN  SubSeq(sorted, 1, k) \o <<r>> \o SubSeq(sorted, k + 1, Len(sorted))

RECURSIVE OrderByDatetime(_)
OrderByDatetime(rows) ==
    IF rows = <<>> THEN <<>>
    ELSE InsertByDatetime(OrderByDatetime(SubSeq(rows, 1, Len(rows) - 1)),
                          rows[Len(rows)])

SelectRange(rows, lo, hi) ==
    OrderByDatetime(SelectSeq(rows, LAMBDA r : InRange(r, lo, hi)))

\* get_data_by_date_range(data_type, start_date, end_date) on the tables tbl;
\* err: the database raises, which the method catches and answers None.
get_data_by_date_range(tbl, data_type, start_date, end_date, err) ==
    IF data_type \notin {"temperature", "humidity"} \/ err
    THEN NoData
    ELSE
      LET start_utc == replace_tzinfo_none(astimezone(start_date, 0))
          end_utc == replace_tzinfo_none(astimezone(end_date, 0))
          results == SelectRange(tbl[data_type], isoformat(start_utc), isoformat(end_utc))
          n == Len(results)
          timestamps == [i \in 1..n |->
              astimezone(localize_utc(fromisoformat(results[i].timestamp)), TzOffset)]
          values == [i \in 1..n |-> results[i].value]
      IN  IF n = 0 THEN NoData
          ELSE IF aware_lt(timestamps[n], end_date)
               THEN [kind |-> "data",
                     timestamps |-> Append(timestamps, end_date),
                     values |-> Append(values, values[n])]
               ELSE [kind |-> "data", timestamps |-> timestamps, values |-> values]

\* a month of 31 days
PeriodSpanLongMonth(period) ==
    CASE period = "24h" -> 24 * Hour
      [] period = "week" -> 7 * Day
      [] period = "month" -> 31 * Day
      [] OTHER -> 24 * Hour

\* timedelta of a period
PeriodSpan(period) ==
    CASE period = "24h" -> 24 * Hour
      [] period = "week" -> 7 * Day
      [] period = "month" -> 30 * Day
      [] OTHER -> 24 * Hour

\* an unknown period resolved as the week
get_date_range_for_period_week(period, clock) ==
    LET p == IF period \notin Periods THEN "week" ELSE period
        n == now_tz(clock)
    IN  [start_date |-> Aware(n.wall - PeriodSpan(p), n.off), end_date |-> n]

\* get_date_range_for_period(period) at clock reading `clock`
get_date_range_for_period(period, clock) ==
    LET p == IF period \notin Periods THEN "24h" ELSE period
        n == now_tz(clock)
    IN  [start_date |-> Aware(n.wall - PeriodSpan(p), n.off), end_date |-> n]

NoQuery == [kind |-> "idle"]

RECURSIVE Sum(_)
Sum(values) == IF values = <<>> THEN 0 ELSE Head(values) + Sum(Tail(values))

\* min(values) and max(values)
Min(values) == CHOOSE v \in {values[i] : i \in 1..Len(values)} :
                   \A i \in 1..Len(values) : v <= values[i]
Max(values) == CHOOSE v \in {values[i] : i \in 1..Len(values)} :
                   \A i \in 1..Len(values) : v >= values[i]

\* sum(values) / len(values): the quotient is kept as its two terms
Quotient(a, b) == [num |-> a, den |-> b]
SameQuotient(p, q) == p.num * q.den = q.num * p.den

\* generate_plot for one series: the no-data placeholder when the query
\* answers None, else the chart with the mean, minimum and maximum lines
generate_plot(data) ==
    IF data = NoData
    THEN [kind |-> "no_data"]
    ELSE [kind |-> "chart",
          mean_val |-> Quotient(Sum(data.values), Len(data.values)),
          min_val |-> Min(data.values),
          max_val |-> Max(data.values)]

\* the /plot/<data_type>?period= route for one series: resolve the window,
\* then generate_plot -> get_data_by_date_range
plot(data_type, period, err) ==
    /\ data_type \in {"temperature", "humidity"}
    /\ LET p == IF period \notin Periods THEN "24h" ELSE period
           w == get_date_range_for_period(p, now)
           data == get_data_by_date_range(table, data_type,
                                          w.start_date, w.end_date, err)
       IN  qres' = [kind |-> "plot", data_type |-> data_type, period |-> p,
                    start_date |-> w.start_date, end_date |-> w.end_date,
                    err |-> err,
                    data |-> data,
                    image |-> generate_plot(data)]
    /\ UNCHANGED <<now, table, ret, lastStore, remote, fetchVars, loaderVars, schedVars>>

\* ORDER BY datetime(timestamp) DESC LIMIT 1: the rows that may come first,
\* those of the greatest second (none when the table is empty)
LatestByDatetime(rows) ==
    {rows[i] : i \in {j \in 1..Len(rows) :
        \A k \in 1..Len(rows) :
            sql_datetime(rows[k].timestamp) <= sql_datetime(rows[j].timestamp)}}

\* fetchone(): a row as a one-element tuple, None as the empty one
FetchOne(rows) == IF rows = <<>> THEN {<<>>} ELSE {<<r>> : r \in LatestByDatetime(rows)}

\* strftime('%Y-%m-%d %H:%M:%S %Z') of an aware datetime: its wall clock to
\* the second
strftime(a) == a.wall \div Sub

LatestErrors == {"none", "sqlite3.Error", "Exception"}

\* the answers of get_latest_data that carry an error message
LatestFailure(message) ==
    [kind |-> "latest", temperature |-> <<>>, humidity |-> <<>>,
     last_update |-> <<>>, error |-> message]

\* get_latest_data(): the latest row of either table, the later of the two
\* timestamps as last_update; err: what the database or the parsing raises
get_latest_data(err) ==
    /\ \E temp_result \in FetchOne(table["temperature"]),
          humidity_result \in FetchOne(table["humidity"]) :
          qres' =
            IF err = "sqlite3.Error"
            THEN LatestFailure("Database connection error. Please try again later.")
            ELSE IF err = "Exception"
            THEN LatestFailure("An error occurred while retrieving data. Please try again later.")
            ELSE IF temp_result = <<>> /\ humidity_result = <<>>
            THEN LatestFailure("No data available. Run the loader first.")
            ELSE LET times == {localize_utc(fromisoformat(r.timestamp)) :
                                 r \in {temp_result[i] : i \in 1..Len(temp_result)}
                                   \cup {humidity_result[i] : i \in 1..Len(humidity_result)}}
                     latest_time == CHOOSE t \in times : \A u \in times : ~aware_lt(t, u)
                 IN  [kind |-> "latest",
                      temperature |-> [i \in 1..Len(temp_result) |-> temp_result[i].value],
                      humidity |-> [i \in 1..Len(humidity_result) |-> humidity_result[i].value],
                      last_update |-> <<strftime(astimezone(latest_time, TzOffset))>>,
                      error |-> "none"]
    /\ UNCHANGED <<now, table, ret, lastStore, remote, fetchVars, loaderVars, schedVars>>

\* get_date_range_for_period called with the period as it was received
resolve(period) ==
    /\ LET w == get_date_range_for_period(period, now)
       IN  qres' = [kind |-> "window", selector |-> period,
                    start_date |-> w.start_date, end_date |-> w.end_date]
    /\ UNCHANGED <<now, table, ret, lastStore, remote, fetchVars, loaderVars, schedVars>>

----------------------------------------------------------------------------
(* The remote history API *)

RecordKinds == {"num", "unavailable", "null"}

\* a state record: its instant t, the UTC offset its last_changed text is
\* written with, the kind of its state field and, for a numeric state, the value
Record(t, off, kind, v) == [t |-> t, off |-> off, kind |-> kind, v |-> v]

\* GET /api/history/period/<start>?end_time=<end>: the records of the entity
\* whose instant lies in the requested period, oldest first
HistoryPeriod(recs, start, end) ==
    SelectSeq(recs, LAMBDA r : start <= r.t /\ r.t <= end)

----------------------------------------------------------------------------
(* The loader: fetch_historical_data *)

max_days == 10

\* a sub-window that is never cut at end_time
Min2First(a, b) == a
Min2(a, b) == IF a < b THEN a ELSE b

\* the except clauses around one record (loader.py:171) and around one
\* sub-window request (loader.py:176-179); every exception modelled here
\* derives from Exception
RecordHandler == {"ValueError", "KeyError"}
RequestHandlerNarrow == {"RequestException"}
RequestHandler == {"RequestException", "Exception"}
Catches(handler, exc) == exc \in handler \/ "Exception" \in handler

\* what parsing one record raises: float('unavailable') is a ValueError,
\* float(None) a TypeError, a record without the state field a KeyError
RecordException(r) ==
    CASE r.kind = "num" -> "none"
      [] r.kind = "unavailable" -> "ValueError"
      [] r.kind = "null" -> "TypeError"
      [] r.kind = "missing" -> "KeyError"

\* datetime.fromisoformat(text.replace('Z', '+00:00')).replace(tzinfo=None)
ParseTimestamp(r) == replace_tzinfo_none(Aware(r.t + r.off, r.off))

\* the well-formed records of a response, as the points they denote
ValidPoints(recs) ==
    {<<ParseTimestamp(recs[i]), recs[i].v>> : i \in {j \in 1..Len(recs) : recs[j].kind = "num"}}

\* the loop over data[0] (loader.py:164-172): a record whose exception the
\* inner handler catches is skipped, any other exception leaves the loop
RECURSIVE ParseRecords(_, _, _)
ParseRecords(recs, i, acc) ==
    IF i > Len(recs) THEN [points |-> acc, exc |-> "none"]
    ELSE LET e == RecordException(recs[i]) IN
         IF e = "none"
         THEN ParseRecords(recs, i + 1, Append(acc, <<ParseTimestamp(recs[i]), recs[i].v>>))
         ELSE IF Catches(RecordHandler, e)
              THEN ParseRecords(recs, i + 1, acc)
              ELSE [points |-> acc, exc |-> e]

NetOutcomes == {"ok", "RequestException", "JSONDecodeError"}

\* fetch_historical_data with the same sub-window asked again after a
\* request that failed
fetch_chunk_retry(s, outcome) ==
    /\ lpc = "fetch"
    /\ current_start < win.end_time
    /\ LET chunk_end == Min2(current_start + win.max_days * Day, win.end_time)
           data == HistoryPeriod(remote[s], current_start, chunk_end)
           parsed == ParseRecords(data, 1, <<>>)
           exc == IF outcome = "ok" THEN parsed.exc ELSE outcome
       IN  /\ requests' = Append(requests, [start |-> current_start, end |-> chunk_end])
           /\ all_historical_data' =
                 IF outcome = "ok" THEN all_historical_data \o parsed.points
                 ELSE all_historical_data
           /\ okChunks' = IF outcome = "ok" THEN okChunks + 1 ELSE okChunks
           /\ validReturned' =
                 IF outcome = "ok"
                 THEN [validReturned EXCEPT ![s] = @ \cup ValidPoints(data)]
                 ELSE validReturned
           /\ failedReqs' = IF outcome = "ok" THEN failedReqs ELSE failedReqs + 1
           /\ IF exc = "none"
              THEN current_start' = chunk_end /\ lpc' = lpc
              ELSE IF Catches(RequestHandler, exc)
              THEN current_start' = current_start /\ lpc' = lpc
              ELSE current_start' = current_start /\ lpc' = "raised"
    /\ UNCHANGED <<win, storeVars, plan, sensor_data, idx, stored, skipped, counts,
                   nops, tableAtOpStart, storeErr, cleanBefore>>

\* one iteration of the while loop of fetch_historical_data for the entity of
\* series s: the sub-window, the request with its outcome, the records parsed
fetch_chunk(s, outcome) ==
    /\ lpc = "fetch"
    /\ current_start < win.end_time
    /\ LET chunk_end == Min2(current_start + win.max_days * Day, win.end_time)
           data == HistoryPeriod(remote[s], current_start, chunk_end)
           parsed == ParseRecords(data, 1, <<>>)
           exc == IF outcome = "ok" THEN parsed.exc ELSE outcome
       IN  /\ requests' = Append(requests, [start |-> current_start, end |-> chunk_end])
           /\ all_historical_data' =
                 IF outcome = "ok" THEN all_historical_data \o parsed.points
                 ELSE all_historical_data
           /\ okChunks' = IF outcome = "ok" THEN okChunks + 1 ELSE okChunks
           /\ validReturned' =
                 IF outcome = "ok"
                 THEN [validReturned EXCEPT ![s] = @ \cup ValidPoints(data)]
                 ELSE validReturned
           /\ failedReqs' = IF outcome = "ok" THEN failedReqs ELSE failedReqs + 1
           /\ IF exc = "none" \/ Catches(RequestHandler, exc)
              THEN current_start' = chunk_end /\ lpc' = lpc
              ELSE current_start' = current_start /\ lpc' = "raised"
    /\ UNCHANGED <<win, storeVars, plan, sensor_data, idx, stored, skipped, counts,
                   nops, tableAtOpStart, storeErr, cleanBefore>>

\* the loop of fetch_historical_data has ended
FetchLoopDone == lpc = "fetch" /\ ~(current_start < win.end_time)

----------------------------------------------------------------------------
(* The loader: store_sensor_data, load_last_month_data, run *)

Call(name, s) == [call |-> name, series |-> s]

\* load_last_month_data fetches both series, then stores both
MonthPlan == << Call("fetch_historical_data", "temperature"),
                Call("fetch_historical_data", "humidity"),
                Call("store_sensor_data", "temperature"),
                Call("store_sensor_data", "humidity") >>

\* run fetches and stores one series after the other
RunPlan == << Call("fetch_historical_data", "temperature"),
              Call("store_sensor_data", "temperature"),
              Call("fetch_historical_data", "humidity"),
              Call("store_sensor_data", "humidity") >>

NoWindow == [start_time |-> 0, end_time |-> 0, max_days |-> max_days]

\* control passes to the first call of `rest`, or back to the caller
Enter(rest, w) ==
    /\ plan' = rest
    /\ win' = w
    /\ all_historical_data' = <<>>
    /\ requests' = <<>>
    /\ okChunks' = 0
    /\ stored' = 0
    /\ skipped' = 0
    /\ IF rest = <<>>
       THEN lpc' = "sleep" /\ current_start' = 0 /\ idx' = 0
       ELSE IF Head(rest).call = "fetch_historical_data"
            THEN lpc' = "fetch" /\ current_start' = w.start_time /\ idx' = 0
            ELSE lpc' = "store" /\ current_start' = 0 /\ idx' = 1

\* return all_historical_data
fetch_return ==
    /\ FetchLoopDone
    /\ sensor_data' = [sensor_data EXCEPT ![Head(plan).series] = all_historical_data]
    /\ Enter(Tail(plan), win)
    /\ UNCHANGED <<storeVars, counts, nops, validReturned, failedReqs,
                   tableAtOpStart, storeErr, cleanBefore>>

\* the loop of store_sensor_data without the count of the failed inserts
store_point_uncounted(e) ==
    /\ lpc = "store"
    /\ idx <= Len(sensor_data[Head(plan).series])
    /\ LET s == Head(plan).series
           pt == sensor_data[s][idx]
       IN  IF s = "temperature"
           THEN store_temperature(pt[2], pt[1], e)
           ELSE store_humidity(pt[2], pt[1], e)
    /\ stored' = IF ret' THEN stored + 1 ELSE stored
    /\ skipped' = skipped
    /\ idx' = idx + 1
    /\ storeErr' = (storeErr \/ e)
    /\ UNCHANGED <<lpc, plan, sensor_data, counts, nops, validReturned, failedReqs,
                   tableAtOpStart, cleanBefore, fetchVars>>

\* one iteration of the loop of store_sensor_data: store_function(value, timestamp)
store_point(e) ==
    /\ lpc = "store"
    /\ idx <= Len(sensor_data[Head(plan).series])
    /\ LET s == Head(plan).series
           pt == sensor_data[s][idx]
       IN  IF s = "temperature"
           THEN store_temperature(pt[2], pt[1], e)
           ELSE store_humidity(pt[2], pt[1], e)
    /\ stored' = IF ret' THEN stored + 1 ELSE stored
    /\ skipped' = IF ret' THEN skipped ELSE skipped + 1
    /\ idx' = idx + 1
    /\ storeErr' = (storeErr \/ e)
    /\ UNCHANGED <<lpc, plan, sensor_data, counts, nops, validReturned, failedReqs,
                   tableAtOpStart, cleanBefore, fetchVars>>

\* return stored, skipped
store_return ==
    /\ lpc = "store"
    /\ idx > Len(sensor_data[Head(plan).series])
    /\ counts' = [counts EXCEPT ![Head(plan).series] = <<stored, skipped>>]
    /\ Enter(Tail(plan), win)
    /\ UNCHANGED <<storeVars, sensor_data, nops, validReturned, failedReqs,
                   tableAtOpStart, storeErr, cleanBefore>>

\* an operation starts: what the earlier operations fetched and met is kept
\* for comparison, the records of this one start empty
BeginOp(thePlan, w) ==
    /\ nops' = nops + 1
    /\ Enter(thePlan, w)
    /\ sensor_data' = [s \in Series |-> <<>>]
    /\ counts' = [s \in Series |-> <<0, 0>>]
    /\ validReturned' = [s \in Series |-> {}]
    /\ failedReqs' = 0
    /\ tableAtOpStart' = table
    /\ cleanBefore' = (cleanBefore /\ ~storeErr /\ failedReqs = 0)
    /\ storeErr' = FALSE
    /\ UNCHANGED storeVars

\* main() calls load_last_month_data: the last 30 days
load_last_month_data ==
    /\ lpc = "boot"
    /\ BeginOp(MonthPlan, [start_time |-> now - 30 * Day, end_time |-> now,
                           max_days |-> max_days])

MaxOps == 2                  \* operations of the loader in one behaviour

\* run_continuously calls run: the last hour
run ==
    /\ lpc = "sleep"
    /\ nops < MaxOps
    /\ BeginOp(RunPlan, [start_time |-> now - Hour, end_time |-> now,
                         max_days |-> max_days])

\* the loader before main() runs
LoaderInit ==
    /\ lpc = "boot"
    /\ plan = <<>>
    /\ win = NoWindow
    /\ current_start = 0
    /\ all_historical_data = <<>>
    /\ sensor_data = [s \in Series |-> <<>>]
    /\ idx = 0
    /\ stored = 0
    /\ skipped = 0
    /\ counts = [s \in Series |-> <<0, 0>>]
    /\ nops = 0
    /\ requests = <<>>
    /\ okChunks = 0
    /\ validReturned = [s \in Series |-> {}]
    /\ failedReqs = 0
    /\ tableAtOpStart = [s \in Series |-> <<>>]
    /\ storeErr = FALSE
    /\ cleanBefore = TRUE

StoreInit ==
    /\ table = [s \in Series |-> <<>>]
    /\ ret = FALSE
    /\ lastStore = [op |-> "none", dup |-> FALSE, err |-> FALSE]

----------------------------------------------------------------------------
(* The loader: fetch_sensor_state *)

\* the classes an exception derives from, itself included
Bases(exc) ==
    CASE exc = "HTTPError" -> {"HTTPError", "RequestException", "Exception"}
      [] exc = "JSONDecodeError" -> {"JSONDecodeError", "ValueError", "Exception"}
      [] OTHER -> {exc, "Exception"}

\* the two except clauses of fetch_sensor_state (loader.py:84-89)
SensorStateHandler == {"RequestException", "ValueError", "KeyError"}

\* a request for the current state is answered, fails on the network, is
\* answered with an error status (raise_for_status) or with a body that is
\* not JSON
StateOutcomes == {"ok", "RequestException", "HTTPError", "JSONDecodeError"}

\* fetch_sensor_state(entity_id) for the entity of series s, whose current
\* state is the last record of its history: float(data['state']), None when
\* one of the two except clauses catches, else the exception leaves the call
fetch_sensor_state(s, outcome) ==
    LET data == remote[s][Len(remote[s])]
        exc == IF outcome = "ok" THEN RecordException(data) ELSE outcome
    IN  IF exc = "none" THEN [value |-> <<data.v>>, exc |-> "none"]
        ELSE IF Bases(exc) \cap SensorStateHandler # {}
             THEN [value |-> <<>>, exc |-> "none"]
             ELSE [value |-> <<>>, exc |-> exc]

----------------------------------------------------------------------------
(* The scheduler program: database.py and ha_client.py *)

UPDATE_INTERVAL == 300       \* seconds between two polls
HistoryHours == 720          \* hours asked of get_entity_history

NoneValue == 0 - 1           \* None in a REAL column

\* None where a state dictionary is expected
NoState == [t |-> 0, off |-> 0, kind |-> "None", v |-> 0]

\* the last_updated text of a state record: the instant written with the
\* record's UTC offset
LastUpdated(r) == Aware(r.t + r.off, r.off)

\* float(state_value) if state_value is not None else None, ValueError and
\* TypeError giving None
StateToReal(r) == IF r.kind = "num" THEN r.v ELSE NoneValue

\* the column values insert_weather_data binds for a state of `entity`
WeatherRow(data, entity) ==
    [timestamp |-> LastUpdated(data), entity_id |-> entity,
     state |-> [kind |-> data.kind, v |-> data.v],
     temperature |-> IF entity = "temperature" THEN StateToReal(data) ELSE NoneValue,
     humidity |-> IF entity = "humidity" THEN StateToReal(data) ELSE NoneValue]

\* INSERT INTO weather_data ... VALUES (...) and return True; every exception
\* is caught and gives False
insert_weather_data(rows, data, entity, err) ==
    IF err THEN [rows |-> rows, ret |-> FALSE]
    ELSE [rows |-> Append(rows, WeatherRow(data, entity)), ret |-> TRUE]

\* order of two timestamp texts: the wall clock digits come first, the offset last
TextLeq(a, b) == a.wall < b.wall \/ (a.wall = b.wall /\ a.off <= b.off)

\* SELECT * FROM weather_data ORDER BY timestamp DESC LIMIT 1: the rows that
\* may come first (none when the table is empty)
get_latest_weather_data(rows) ==
    {rows[i] : i \in {j \in 1..Len(rows) :
        \A k \in 1..Len(rows) : TextLeq(rows[k].timestamp, rows[j].timestamp)}}

\* WHERE timestamp >= datetime('now', '-' || ? || ' hours'): two texts are
\* compared; the stored one carries 'T' after the date where the bound carries
\* a space, so the date alone decides
RecentEnough(row, hours, clock) ==
    row.timestamp.wall \div Day >= (clock - hours * Hour) \div Day

\* ORDER BY timestamp DESC over the index on timestamp: the text descending,
\* rows of equal text by descending rowid
OrderByTimestampDesc(rows) ==
    LET n == Len(rows)
        Before(j, i) ==
            \/ ~TextLeq(rows[j].timestamp, rows[i].timestamp)
            \/ rows[j].timestamp = rows[i].timestamp /\ j > i
        Position(i) == 1 + Cardinality({j \in 1..n : Before(j, i)})
    IN  [p \in 1..n |-> rows[CHOOSE i \in 1..n : Position(i) = p]]

\* get_recent_weather_data(hours, limit) at clock reading `clock`
get_recent_weather_data(rows, hours, limit, clock) ==
    LET found == OrderByTimestampDesc(
                     SelectSeq(rows, LAMBDA r : RecentEnough(r, hours, clock)))
    IN  IF Len(found) <= limit THEN found ELSE SubSeq(found, 1, limit)

MetadataKeys == {"last_fetch_time", "last_historical_fetch", "latest_forecast"}

\* INSERT INTO metadata without the conflict clause on a table without the key
update_metadata_insert(md, key, value) == md \cup {[key |-> key, value |-> value]}

\* INSERT OR REPLACE INTO metadata (key, value, updated_at): key is the
\* primary key, the row that holds it is deleted and the new row written
update_metadata(md, key, value) ==
    {r \in md : r.key # key} \cup {[key |-> key, value |-> value]}

NoMetadata == [kind |-> "None"]

\* SELECT value FROM metadata WHERE key = ?, fetchone(): one of the rows of
\* the key, None when there is none
get_metadata(md, key) ==
    IF \E r \in md : r.key = key
    THEN [kind |-> "str", value |-> (CHOOSE r \in md : r.key = key).value]
    ELSE NoMetadata

\* the except clause of the client methods and of the two job bodies
ClientHandler == {"Exception"}
JobHandler == {"Exception"}

\* a request is answered with status 200, with another status, or raises
ClientOutcomes == {"ok", "status", "ConnectionError"}
DbOutcomes == {"ok", "OperationalError"}

\* HomeAssistantClient.get_entity_state: the current state of the entity, the
\* last record of its history; None for any other answer
get_entity_state(s, outcome) ==
    IF outcome = "ok"
    THEN [value |-> IF remote[s] = <<>> THEN NoState ELSE remote[s][Len(remote[s])],
          exc |-> "none"]
    ELSE IF outcome = "status" \/ Catches(ClientHandler, outcome)
         THEN [value |-> NoState, exc |-> "none"]
         ELSE [value |-> NoState, exc |-> outcome]

\* HomeAssistantClient.get_entity_history: one request for the whole period
\* [now - hours, now]; [] for any other answer
get_entity_history(s, hours, clock, outcome) ==
    IF outcome = "ok"
    THEN [value |-> HistoryPeriod(remote[s], clock - hours * Hour, clock), exc |-> "none"]
    ELSE IF outcome = "status" \/ Catches(ClientHandler, outcome)
         THEN [value |-> <<>>, exc |-> "none"]
         ELSE [value |-> <<>>, exc |-> outcome]

----------------------------------------------------------------------------
(* The scheduler program: data_fetcher.py *)

Jobs == {"weather_fetch_job", "historical_fetch_job", "initial_fetch_job"}

MaxJobs == 2                 \* job runs started in one behaviour
MaxDbErrors == 1             \* database statements that fail in one behaviour

HistPositions == {"hist_temp", "hist_temp_store", "hist_hum", "hist_hum_store"}
CurPositions == {"cur_temp", "cur_hum", "cur_meta"}

\* the series of the entity a position reads or stores
SeriesAt(pc) ==
    IF pc \in {"hist_temp", "hist_temp_store", "cur_temp"} THEN "temperature"
    ELSE "humidity"

\* where a job starts, and where it goes on when one of the two bodies returns
Entry(j) ==
    CASE j = "weather_fetch_job" -> "cur_wait"
      [] j = "historical_fetch_job" -> "hist_wait"
      [] j = "initial_fetch_job" -> "check"
AfterHist(j) == IF j = "initial_fetch_job" THEN "cur_wait" ELSE "idle"
AfterCur(j) == IF j = "initial_fetch_job" THEN "done" ELSE "idle"

\* a job fired whatever the state of the scheduler
Trigger_any_state(j) ==
    /\ jpc[j] = "idle"
    /\ njobs < MaxJobs
    /\ jpc' = [jpc EXCEPT ![j] = Entry(j)]
    /\ njobs' = njobs + 1
    /\ UNCHANGED <<is_running, weather_data, metadata, last_fetch_time, fetch_lock,
                   historical_data, hidx, stored_count, db_errors, history_calls>>

\* the running scheduler fires a job; a job never overlaps itself, the
\* initial job runs once
Trigger(j) ==
    /\ scheduler = "running"
    /\ jpc[j] = "idle"
    /\ njobs < MaxJobs
    /\ jpc' = [jpc EXCEPT ![j] = Entry(j)]
    /\ njobs' = njobs + 1
    /\ UNCHANGED <<is_running, weather_data, metadata, last_fetch_time, fetch_lock,
                   historical_data, hidx, stored_count, db_errors, history_calls>>

\* the zone of the host the scheduler runs on: UTC, or the zone of the
\* station
HostZones == {0, TzOffset}

\* datetime.now(): the wall clock of the host's zone, without a zone
datetime_now(zone) == replace_tzinfo_none(astimezone(localize_utc(now), zone))

\* initial_data_fetch up to its two calls, on a host of zone `zone`: return
\* when current_time - last_timestamp, both taken without their zones, is
\* less than two update intervals
initial_data_fetch(zone) ==
    LET j == "initial_fetch_job"
        latest_data == get_latest_weather_data(weather_data)
        recent == \E row \in latest_data :
                     datetime_now(zone) - replace_tzinfo_none(row.timestamp)
                         < UPDATE_INTERVAL * 2 * Second
    IN  /\ jpc[j] = "check"
        /\ jpc' = [jpc EXCEPT ![j] = IF recent THEN "done" ELSE "hist_wait"]
        /\ UNCHANGED <<is_running, weather_data, metadata, last_fetch_time,
                       fetch_lock, historical_data, hidx, stored_count, njobs,
                       db_errors, history_calls>>

\* either body entered without the lock being free
acquire_unlocked(j) ==
    /\ jpc[j] \in {"hist_wait", "cur_wait"}
    /\ fetch_lock' = j
    /\ jpc' = [jpc EXCEPT ![j] = IF jpc[j] = "hist_wait" THEN "hist_temp" ELSE "cur_temp"]
    /\ UNCHANGED <<is_running, weather_data, metadata, last_fetch_time,
                   historical_data, hidx, stored_count, njobs, db_errors,
                   history_calls>>

\* with self.fetch_lock: of either body
acquire(j) ==
    /\ jpc[j] \in {"hist_wait", "cur_wait"}
    /\ fetch_lock = "free"
    /\ fetch_lock' = j
    /\ jpc' = [jpc EXCEPT ![j] = IF jpc[j] = "hist_wait" THEN "hist_temp" ELSE "cur_temp"]
    /\ UNCHANGED <<is_running, weather_data, metadata, last_fetch_time,
                   historical_data, hidx, stored_count, njobs, db_errors,
                   history_calls>>

\* a body that keeps the lock when an exception reaches its except clause
Leave_keep_lock(j, exc, after) ==
    /\ fetch_lock' = IF exc = "none" THEN "free" ELSE fetch_lock
    /\ historical_data' = <<>>
    /\ hidx' = 0
    /\ stored_count' = 0
    /\ jpc' = [jpc EXCEPT ![j] =
                 IF exc = "none" \/ Catches(JobHandler, exc) THEN after ELSE "raised"]

\* exception exc reaches the except clause of the body: the lock is released
\* and the body returns, or the exception leaves the job
Leave(j, exc, after) ==
    /\ fetch_lock' = "free"
    /\ historical_data' = <<>>
    /\ hidx' = 0
    /\ stored_count' = 0
    /\ jpc' = [jpc EXCEPT ![j] =
                 IF exc = "none" \/ Catches(JobHandler, exc) THEN after ELSE "raised"]

\* fetch_and_store_historical_data: ha_client.get_entity_history(hours=hours)
\* or get_humidity_history(hours=hours)
hist_fetch(j, outcome) ==
    /\ jpc[j] \in {"hist_temp", "hist_hum"}
    /\ LET s == SeriesAt(jpc[j])
           r == get_entity_history(s, HistoryHours, now, outcome)
       IN  /\ history_calls' = Append(history_calls,
                  [job |-> j, series |-> s, start |-> now - HistoryHours * Hour,
                   end |-> now, ok |-> (outcome = "ok")])
           /\ IF r.exc = "none"
              THEN /\ historical_data' = r.value
                   /\ hidx' = 1
                   /\ stored_count' = 0
                   /\ jpc' = [jpc EXCEPT ![j] =
                         IF s = "temperature" THEN "hist_temp_store" ELSE "hist_hum_store"]
                   /\ UNCHANGED fetch_lock
              ELSE Leave(j, r.exc, AfterHist(j))
    /\ UNCHANGED <<is_running, weather_data, metadata, last_fetch_time, njobs,
                   db_errors>>

\* one iteration of `for data_point in historical_data`
hist_insert(j, err) ==
    /\ jpc[j] \in {"hist_temp_store", "hist_hum_store"}
    /\ hidx <= Len(historical_data)
    /\ LET r == insert_weather_data(weather_data, historical_data[hidx],
                                    SeriesAt(jpc[j]), err)
       IN  /\ weather_data' = r.rows
           /\ stored_count' = IF r.ret THEN stored_count + 1 ELSE stored_count
    /\ hidx' = hidx + 1
    /\ db_errors' = IF err THEN db_errors + 1 ELSE db_errors
    /\ UNCHANGED <<is_running, metadata, last_fetch_time, fetch_lock, jpc,
                   historical_data, njobs, history_calls>>

\* the loop is over: on to the humidity history, or the metadata update that
\* follows a non-empty humidity history and the end of the body
hist_next(j, m) ==
    /\ jpc[j] \in {"hist_temp_store", "hist_hum_store"}
    /\ hidx > Len(historical_data)
    /\ IF jpc[j] = "hist_temp_store"
       THEN /\ jpc' = [jpc EXCEPT ![j] = "hist_hum"]
            /\ historical_data' = <<>>
            /\ hidx' = 0
            /\ stored_count' = 0
            /\ UNCHANGED <<metadata, fetch_lock, db_errors>>
       ELSE IF historical_data # <<>>
            THEN /\ db_errors' = IF m = "ok" THEN db_errors ELSE db_errors + 1
                 /\ metadata' = IF m = "ok"
                                THEN update_metadata(metadata, "last_historical_fetch",
                                                     isoformat(now))
                                ELSE metadata
                 /\ Leave(j, IF m = "ok" THEN "none" ELSE m, AfterHist(j))
            ELSE /\ UNCHANGED <<metadata, db_errors>>
                 /\ Leave(j, "none", AfterHist(j))
    /\ UNCHANGED <<is_running, weather_data, last_fetch_time, njobs, history_calls>>

\* fetch_and_store_current_data: get_entity_state() or get_humidity_state(),
\* and the insert of a state that was returned
cur_state(j, outcome, err) ==
    /\ jpc[j] \in {"cur_temp", "cur_hum"}
    /\ LET s == SeriesAt(jpc[j])
           r == get_entity_state(s, outcome)
           inserts == r.exc = "none" /\ r.value.kind # "None"
       IN  /\ db_errors' = IF inserts /\ err THEN db_errors + 1 ELSE db_errors
           /\ IF r.exc = "none"
              THEN /\ weather_data' =
                         IF inserts
                         THEN insert_weather_data(weather_data, r.value, s, err).rows
                         ELSE weather_data
                   /\ jpc' = [jpc EXCEPT ![j] =
                                IF s = "temperature" THEN "cur_hum" ELSE "cur_meta"]
                   /\ UNCHANGED <<fetch_lock, historical_data, hidx, stored_count>>
              ELSE /\ weather_data' = weather_data
                   /\ Leave(j, r.exc, AfterCur(j))
    /\ UNCHANGED <<is_running, metadata, last_fetch_time, njobs, history_calls>>

\* self.last_fetch_time = datetime.now(); db.update_metadata(...), and the
\* end of the body
cur_meta(j, m) ==
    /\ jpc[j] = "cur_meta"
    /\ last_fetch_time' = <<now>>
    /\ metadata' = IF m = "ok"
                   THEN update_metadata(metadata, "last_fetch_time", isoformat(now))
                   ELSE metadata
    /\ Leave(j, IF m = "ok" THEN "none" ELSE m, AfterCur(j))
    /\ db_errors' = IF m = "ok" THEN db_errors ELSE db_errors + 1
    /\ UNCHANGED <<is_running, weather_data, njobs, history_calls>>

RequiredParams == {"HOME_ASSISTANT_TOKEN", "HOME_ASSISTANT_SENSOR",
                   "HOME_ASSISTANT_SENSOR_HUMIDITY"}

\* Config.validate: ValueError when a required parameter is empty
validate == IF missing # {} THEN "ValueError" ELSE "none"

\* start() without the validation of the configuration
start_unchecked ==
    /\ qres = NoQuery
    /\ is_running' = TRUE
    /\ scheduler' = "running"
    /\ qres' = [kind |-> "start", exc |-> "none"]
    /\ UNCHANGED <<now, storeVars, remote, fetchVars, loaderVars, weather_data,
                   metadata, last_fetch_time, fetch_lock, jpc, historical_data,
                   hidx, stored_count, njobs, db_errors, history_calls, missing>>

\* WeatherDataFetcher.start(): nothing when the fetcher runs; else the
\* configuration is validated, the connection tested (a failure is only
\* printed), the scheduler started and is_running set; an exception is
\* printed and raised again
start ==
    /\ qres = NoQuery
    /\ IF is_running
       THEN /\ UNCHANGED <<is_running, scheduler>>
            /\ qres' = [kind |-> "start", exc |-> "none"]
       ELSE IF validate = "none"
       THEN /\ scheduler' = "running"
            /\ is_running' = TRUE
            /\ qres' = [kind |-> "start", exc |-> "none"]
       ELSE /\ UNCHANGED <<is_running, scheduler>>
            /\ qres' = [kind |-> "start", exc |-> validate]
    /\ UNCHANGED <<now, storeVars, remote, fetchVars, loaderVars, weather_data,
                   metadata, last_fetch_time, fetch_lock, jpc, historical_data,
                   hidx, stored_count, njobs, db_errors, history_calls, missing>>

\* the positions of a job that is not running
Resting == {"idle", "done", "raised"}

\* WeatherDataFetcher.stop() up to the wait of scheduler.shutdown(): nothing
\* when the fetcher does not run, else the scheduler stops firing jobs
stop_shutdown ==
    /\ is_running
    /\ scheduler = "running"
    /\ scheduler' = "shutdown"
    /\ UNCHANGED <<is_running, weather_data, metadata, last_fetch_time, fetch_lock,
                   jpc, historical_data, hidx, stored_count, njobs, db_errors,
                   history_calls, missing>>

\* shutdown() returns when the running jobs have finished; is_running = False
stop_return ==
    /\ scheduler = "shutdown"
    /\ \A j \in Jobs : jpc[j] \in Resting
    /\ scheduler' = "stopped"
    /\ is_running' = FALSE
    /\ UNCHANGED <<weather_data, metadata, last_fetch_time, fetch_lock,
                   jpc, historical_data, hidx, stored_count, njobs, db_errors,
                   history_calls, missing>>

\* the scheduler object over a database holding `rows`, the configuration
\* lacking the parameters m: after start() when `running`, not started
\* otherwise
SchedulerWith(running, rows, m) ==
    /\ missing = m
    /\ is_running = running
    /\ scheduler = IF running THEN "running" ELSE "stopped"
    /\ weather_data = rows
    /\ metadata = {}
    /\ last_fetch_time = <<>>
    /\ fetch_lock = "free"
    /\ jpc = [j \in Jobs |-> "idle"]
    /\ historical_data = <<>>
    /\ hidx = 0
    /\ stored_count = 0
    /\ njobs = 0
    /\ db_errors = 0
    /\ history_calls = <<>>

\* the scheduler object with a complete configuration
SchedulerOver(running, rows) == SchedulerWith(running, rows, {})

\* the scheduler object over a new database
SchedulerInit(running) == SchedulerOver(running, <<>>)

----------------------------------------------------------------------------
(* The dashboard application: app.py *)

ChartPresetNames == {"24h", "3d", "1m"}
CHART_PRESETS == [p \in ChartPresetNames |->
                    CASE p = "24h" -> 24 [] p = "3d" -> 72 [] p = "1m" -> 720]

\* if preset not in CHART_PRESETS: preset = "24h"
chart_preset(preset) == IF preset \notin ChartPresetNames THEN "24h" ELSE preset

\* the column of a row the chart of chart_type plots
ChartValue(row, chart_type) ==
    IF chart_type = "temperature" THEN row.temperature ELSE row.humidity

\* get_weather_chart(preset, chart_type): the preset and the chart type are
\* validated, the rows of the preset's hours are read and those of the
\* sensor that carry a value are plotted; any exception gives the error
\* image.  A point is written by the wall reading of its timestamp text.
get_weather_chart(preset, chart_type, err) ==
    LET p == chart_preset(preset)
        ct == IF chart_type \notin {"temperature", "humidity"}
              THEN "temperature" ELSE chart_type
        hours == CHART_PRESETS[p]
        recent == get_recent_weather_data(weather_data, hours, 10000, now)
        points == {<<recent[i].timestamp.wall, ChartValue(recent[i], ct)>> :
                     i \in {k \in 1..Len(recent) :
                               /\ recent[k].entity_id = ct
                               /\ ChartValue(recent[k], ct) # NoneValue}}
    IN  /\ qres' = IF err
                   THEN [kind |-> "chart", selector |-> preset, image |-> "error"]
                   ELSE [kind |-> "chart", selector |-> preset, image |-> "chart",
                         preset |-> p, chart_type |-> ct, hours |-> hours,
                         points |-> points]
        /\ UNCHANGED <<now, table, ret, lastStore, remote, fetchVars, loaderVars,
                       schedVars>>

\* the record of the greatest timestamp text among those of the sensor that
\* carry a value, the first of them in the order of the list
LatestOf(recent, entity) ==
    LET cand == {i \in 1..Len(recent) :
                    /\ recent[i].entity_id = entity
                    /\ ChartValue(recent[i], entity) # NoneValue}
        best == {i \in cand : \A k \in cand :
                    TextLeq(recent[k].timestamp, recent[i].timestamp)}
    IN  IF cand = {} THEN <<>>
        ELSE <<recent[CHOOSE i \in best : \A k \in best : i <= k]>>

\* the answers of get_current_weather that carry an error message
CurrentFailure(message) ==
    [kind |-> "current", success |-> FALSE, temperature |-> <<>>,
     humidity |-> <<>>, timestamp |-> <<>>, error |-> message]

\* get_current_weather(): the rows of the last hour are read, the latest
\* reading of either sensor is taken and the later of the two timestamps
\* returned; err: the database or the parsing raises
get_current_weather(err) ==
    LET recent_data == get_recent_weather_data(weather_data, 1, 100, now)
        temp_data == LatestOf(recent_data, "temperature")
        humidity_data == LatestOf(recent_data, "humidity")
        stamps == {r.timestamp :
                     r \in {temp_data[i] : i \in 1..Len(temp_data)}
                       \cup {humidity_data[i] : i \in 1..Len(humidity_data)}}
    IN  /\ qres' =
              IF err THEN CurrentFailure("str(e)")
              ELSE IF temp_data = <<>> /\ humidity_data = <<>>
              THEN CurrentFailure("No weather data available")
              ELSE [kind |-> "current", success |-> TRUE,
                    temperature |-> [i \in 1..Len(temp_data) |-> temp_data[i].temperature],
                    humidity |-> [i \in 1..Len(humidity_data) |-> humidity_data[i].humidity],
                    timestamp |-> <<CHOOSE t \in stamps : \A u \in stamps : TextLeq(u, t)>>,
                    error |-> "none"]
        /\ UNCHANGED <<now, table, ret, lastStore, remote, fetchVars, loaderVars,
                       schedVars>>

NoText == [kind |-> "None"]

\* SELECT MIN(timestamp), MAX(timestamp) FROM weather_data: the least and the
\* greatest timestamp text, None on an empty table
MinTimestamp(rows) ==
    IF rows = <<>> THEN NoText
    ELSE CHOOSE t \in {rows[i].timestamp : i \in 1..Len(rows)} :
             \A i \in 1..Len(rows) : TextLeq(t, rows[i].timestamp)
MaxTimestamp(rows) ==
    IF rows = <<>> THEN NoText
    ELSE CHOOSE t \in {rows[i].timestamp : i \in 1..Len(rows)} :
             \A i \in 1..Len(rows) : TextLeq(rows[i].timestamp, t)

\* WeatherDatabase.get_data_stats
get_data_stats ==
    [total_records |-> Len(weather_data),
     earliest_record |-> MinTimestamp(weather_data),
     latest_record |-> MaxTimestamp(weather_data),
     last_fetch_time |-> get_metadata(metadata, "last_fetch_time")]

\* WeatherDataFetcher.get_status
get_status ==
    [is_running |-> is_running,
     last_fetch_time |-> last_fetch_time,
     update_interval |-> UPDATE_INTERVAL,
     database_stats |-> get_data_stats]

ReadOps == {"recent", "latest", "metadata", "status"}

\* what a read of the request-serving path returns: the rows of the last
\* hour (get_current_weather), the latest row, the value of a metadata key,
\* the status of the fetcher
ReadResult(op) ==
    CASE op = "recent" -> get_recent_weather_data(weather_data, 1, 100, now)
      [] op = "latest" -> get_latest_weather_data(weather_data)
      [] op = "metadata" -> get_metadata(metadata, "latest_forecast")
      [] op = "status" -> get_status

\* a read that takes the fetch lock first
read_locked(op) ==
    /\ qres = NoQuery
    /\ fetch_lock = "free"
    /\ qres' = [kind |-> "read", op |-> op, result |-> ReadResult(op)]
    /\ UNCHANGED <<now, storeVars, remote, fetchVars, loaderVars, schedVars>>

\* a read of the request-serving path: it opens its own connection and
\* touches neither fetch_lock nor the jobs
read(op) ==
    /\ qres = NoQuery
    /\ qres' = [kind |-> "read", op |-> op, result |-> ReadResult(op)]
    /\ UNCHANGED <<now, storeVars, remote, fetchVars, loaderVars, schedVars>>

----------------------------------------------------------------------------
(* SpecQuery: the store operations called point by point, and the range    *)
(* query, with stored instants drawn from a pool around the two bounds of  *)
(* the 24h window.  No operation touches both tables, so a behaviour       *)
(* stores into one series only; which one is free.                         *)

TsPool == {Base - Day + k : k \in 0..PoolSpan} \cup {Base + k : k \in 0..PoolSpan}

TotalRows == Len(table["temperature"]) + Len(table["humidity"])

InitQuery ==
    /\ now = Base
    /\ StoreInit
    /\ qres = NoQuery
    /\ remote = [s \in Series |-> <<>>]
    /\ LoaderInit
    /\ SchedulerInit(FALSE)

QStoreTemperature ==
    \E v \in Values, t \in TsPool, e \in BOOLEAN :
        /\ TotalRows < MaxRows
        /\ table["humidity"] = <<>>
        /\ store_temperature(v, t, e)
        /\ qres = NoQuery
        /\ qres' = NoQuery
        /\ UNCHANGED <<now, remote, fetchVars, loaderVars, schedVars>>

QStoreHumidity ==
    \E v \in Values, t \in TsPool, e \in BOOLEAN :
        /\ TotalRows < MaxRows
        /\ table["temperature"] = <<>>
        /\ store_humidity(v, t, e)
        /\ qres = NoQuery
        /\ qres' = NoQuery
        /\ UNCHANGED <<now, remote, fetchVars, loaderVars, schedVars>>

\* a request for the plot route is served
QPlot ==
    \E d \in Series, p \in PeriodInputs, e \in BOOLEAN :
        /\ qres = NoQuery
        /\ plot(d, p, e)

\* the response of the plot route is sent
Respond ==
    /\ qres # NoQuery
    /\ qres' = NoQuery
    /\ UNCHANGED <<now, storeVars, remote, fetchVars, loaderVars, schedVars>>

QTick ==
    /\ now < Base + MaxClock
    /\ now' = now + 1
    /\ qres = NoQuery
    /\ qres' = NoQuery
    /\ UNCHANGED <<storeVars, remote, fetchVars, loaderVars, schedVars>>

NextQuery == QStoreTemperature \/ QStoreHumidity \/ QPlot \/ Respond \/ QTick

SpecQuery == InitQuery /\ [][NextQuery]_vars

----------------------------------------------------------------------------
(* Properties of the store operations and of the range query (SpecQuery) *)

\* C1: for store_temperature and store_humidity, a call with a timestamp
\* that is not yet stored (and which the database accepts) returns true and
\* adds one row; a call with a timestamp that is already stored - the second
\* insert of the same point - returns false and leaves the table as it was;
\* after either, every stored timestamp has exactly one row.
C1_InsertTwiceOneRow ==
    [][(lastStore'.op # "none" /\ storeVars' # storeVars) =>
         LET s == lastStore'.op
         IN  /\ (~lastStore'.dup /\ ~lastStore'.err) =>
                   /\ ret' = TRUE
                   /\ Len(table'[s]) = Len(table[s]) + 1
             /\ lastStore'.dup =>
                   /\ ret' = FALSE
                   /\ table' = table
             /\ \A x \in Keys(table'[s]) : CountRows(table'[s], x) = 1]_vars

\* a second insert of the one stored timestamp has just returned false
C1_Witness ==
    /\ lastStore.op = "humidity"
    /\ lastStore.dup /\ ~lastStore.err
    /\ ret = FALSE
    /\ Len(table["humidity"]) = 1

\* the points a plot response carries, as <<instant, value>> pairs
PlotPoints(q) ==
    [i \in 1..Len(q.data.timestamps) |->
        <<Instant(q.data.timestamps[i]), q.data.values[i]>>]

HasData(q) == q.kind = "plot" /\ q.data.kind = "data"

\* the stored rows of a series whose instant lies in [start_date, end_date]
StoredInWindow(rows, start_date, end_date) ==
    {i \in 1..Len(rows) :
        /\ Instant(start_date) <= fromisoformat(rows[i].timestamp)
        /\ fromisoformat(rows[i].timestamp) <= Instant(end_date)}

\* C5: the timestamps of a range query result are in non-decreasing order,
\* the synthetic trailing point included.
C5_NonDecreasing ==
    HasData(qres) =>
        \A i, j \in 1..Len(qres.data.timestamps) :
            i < j => Instant(qres.data.timestamps[i]) <= Instant(qres.data.timestamps[j])

\* C6: the range query returns exactly the stored points of the series whose
\* instant t satisfies start <= t <= end, apart from the trailing point at end.
C6_ExactWindow ==
    (qres.kind = "plot" /\ ~qres.err) =>
        LET rows == table[qres.data_type]
            inside == {<<fromisoformat(rows[i].timestamp), rows[i].value>> :
                          i \in StoredInWindow(rows, qres.start_date, qres.end_date)}
            atEnd == {pt \in inside : pt[1] = Instant(qres.end_date)}
            got == IF qres.data.kind = "data"
                   THEN {PlotPoints(qres)[i] : i \in 1..Len(qres.data.timestamps)}
                   ELSE {}
        IN  {pt \in got : pt[1] # Instant(qres.end_date)} \cup atEnd = inside

\* the rows the range query selects for a plot response, as a set of indices
\* into the series table
FoundRows(q) ==
    {i \in 1..Len(table[q.data_type]) :
        InRange(table[q.data_type][i],
                isoformat(Instant(q.start_date)), isoformat(Instant(q.end_date)))}

\* C10: when the query finds stored points and the latest of them is strictly
\* before the window end T, the result ends with a point at T carrying the
\* value of that latest stored point, and the points before it are exactly the
\* stored points found; when the latest stored point is at T, the result is
\* exactly the stored points found and nothing is appended.
C10_TrailingExtension ==
    (qres.kind = "plot" /\ ~qres.err /\ FoundRows(qres) # {}) =>
        LET rows == table[qres.data_type]
            F == FoundRows(qres)
            T == Instant(qres.end_date)
            latest == CHOOSE i \in F : \A j \in F :
                          fromisoformat(rows[j].timestamp) <= fromisoformat(rows[i].timestamp)
            found == {<<fromisoformat(rows[i].timestamp), rows[i].value>> : i \in F}
            n == Len(qres.data.timestamps)
        IN  /\ qres.data.kind = "data"
            /\ fromisoformat(rows[latest].timestamp) < T =>
                  /\ n = Cardinality(F) + 1
                  /\ PlotPoints(qres)[n] = <<T, rows[latest].value>>
                  /\ {PlotPoints(qres)[i] : i \in 1..(n - 1)} = found
            /\ fromisoformat(rows[latest].timestamp) = T =>
                  /\ n = Cardinality(F)
                  /\ {PlotPoints(qres)[i] : i \in 1..n} = found

\* C11: when no stored point of the series lies in the window, the range
\* query returns None and the chart path renders the no-data placeholder
\* instead of statistics.
C11_EmptyWindowNoData ==
    (qres.kind = "plot" /\ ~qres.err
        /\ StoredInWindow(table[qres.data_type], qres.start_date, qres.end_date) = {}) =>
        /\ qres.data = NoData
        /\ qres.image.kind = "no_data"

\* the values of the stored points of the queried series inside the window
WindowValues(q) ==
    LET inside == SelectSeq(table[q.data_type], LAMBDA r :
                      /\ Instant(q.start_date) <= fromisoformat(r.timestamp)
                      /\ fromisoformat(r.timestamp) <= Instant(q.end_date))
    IN  [i \in 1..Len(inside) |-> inside[i].value]

\* C14: the mean, minimum and maximum of a period chart are the arithmetic
\* mean and the extrema of the values of the stored points inside the window;
\* the trailing point added for display changes none of them.
C14_StatsOfStoredPoints ==
    (qres.kind = "plot" /\ qres.image.kind = "chart") =>
        LET vs == WindowValues(qres)
        IN  /\ vs # <<>>
            /\ SameQuotient(qres.image.mean_val, Quotient(Sum(vs), Len(vs)))
            /\ qres.image.min_val = Min(vs)
            /\ qres.image.max_val = Max(vs)

----------------------------------------------------------------------------
(* SpecSelector: the period of the web server and the preset of the        *)
(* dashboard chart, resolved as they are received, over a dashboard         *)
(* database that earlier polls have filled.                                 *)

PresetInputs == ChartPresetNames \cup {"week", "bogus"}
ChartTypeInputs == {"temperature", "humidity", "pressure"}

\* rows of earlier polls: a reading of the last hour or one two days old
PolledRows ==
    {WeatherRow(Record(t, 0, "num", v), e) :
        t \in {Base - 2 * Day, Base - Hour}, v \in Values, e \in Series}

InitSelector ==
    /\ now = Base
    /\ StoreInit
    /\ qres = NoQuery
    /\ remote = [s \in Series |-> <<>>]
    /\ LoaderInit
    /\ \E rows \in UNION {[1..n -> PolledRows] : n \in 0..MaxRows} :
           SchedulerOver(TRUE, rows)

\* the window of a period is resolved
QResolve ==
    \E p \in PeriodInputs :
        /\ qres = NoQuery
        /\ resolve(p)

\* a request for the chart of a preset is served
QChart ==
    \E p \in PresetInputs, ct \in ChartTypeInputs, e \in BOOLEAN :
        /\ qres = NoQuery
        /\ get_weather_chart(p, ct, e)

NextSelector == QResolve \/ QChart \/ Respond \/ QTick

SpecSelector == InitSelector /\ [][NextSelector]_vars

----------------------------------------------------------------------------
(* Properties of the selectors (SpecSelector) *)

----------------------------------------------------------------------------------------------------------------------------------------------------------------------------------------------------
(* SpecLatest: the latest-data query of the web server over tables the      *)
(* loader has filled, and the current-weather query of the dashboard over   *)
(* rows its polls have stored.  The two programs keep separate databases;   *)
(* a behaviour follows one of them.                                         *)

\* stored instants: one second back, the start, and a tick after it
LatestPool == {Base - Second, Base, Base + 1}

\* a table of the loader: rows of distinct timestamps in any order
LoadedTables ==
    {rows \in UNION {[1..n -> [timestamp : {adapt_datetime(t) : t \in LatestPool},
                               value : Values]] : n \in 0..MaxRows} :
        \A i, j \in 1..Len(rows) : i # j => rows[i].timestamp # rows[j].timestamp}

InitLatest ==
    /\ now = Base
    /\ ret = FALSE
    /\ lastStore = [op |-> "none", dup |-> FALSE, err |-> FALSE]
    /\ qres = NoQuery
    /\ remote = [s \in Series |-> <<>>]
    /\ LoaderInit
    /\ \E t, h \in LoadedTables,
          rows \in UNION {[1..n -> PolledRows] : n \in 0..MaxRows} :
          /\ (t = <<>> /\ h = <<>>) \/ rows = <<>>
          /\ table = [s \in Series |-> IF s = "temperature" THEN t ELSE h]
          /\ SchedulerOver(TRUE, rows)

\* the latest data of the web server is requested
QLatest ==
    \E err \in LatestErrors :
        /\ qres = NoQuery
        /\ get_latest_data(err)

\* the current weather of the dashboard is requested
QCurrent ==
    \E err \in BOOLEAN :
        /\ qres = NoQuery
        /\ get_current_weather(err)

NextLatest == QLatest \/ QCurrent \/ Respond \/ QTick

SpecLatest == InitLatest /\ [][NextLatest]_vars

----------------------------------------------------------------------------
(* Properties of the latest-data queries (SpecLatest) *)

\* the instants of the rows of both loader tables
StoredInstants ==
    UNION {{fromisoformat(table[s][i].timestamp) : i \in 1..Len(table[s])} : s \in Series}

\* the timestamp texts of the rows of the dashboard database
StoredTexts == {weather_data[i].timestamp : i \in 1..Len(weather_data)}

\* get_latest_data answers either an error message with null readings, or
\* no error, a reading for each table that holds a row and, as last_update,
\* the second of the latest stored instant in the display zone
LatestDataAnswer ==
    (qres.kind = "latest") =>
        IF qres.error # "none"
        THEN /\ qres.temperature = <<>> /\ qres.humidity = <<>>
             /\ qres.last_update = <<>>
        ELSE /\ StoredInstants # {}
             /\ \E m \in StoredInstants :
                   /\ \A t \in StoredInstants : t <= m
                   /\ qres.last_update = <<(m + TzOffsetHours * 3600 * Sub) \div Sub>>
             /\ (qres.temperature = <<>>) = (table["temperature"] = <<>>)
             /\ (qres.humidity = <<>>) = (table["humidity"] = <<>>)

\* C20: the latest-data query never raises: for an empty store and for any
\* exception it returns temperature and humidity null with an error message;
\* when a series has a row it returns no error and the more recent of the
\* latest timestamps of the two series.  Stated for get_latest_data and for
\* get_current_weather.
C20_LatestStructured ==
    /\ LatestDataAnswer
    /\ (qres.kind = "latest" /\ StoredInstants # {}) =>
          qres.error # "No data available. Run the loader first."
    /\ (qres.kind = "current") =>
          /\ ~qres.success =>
                /\ qres.temperature = <<>> /\ qres.humidity = <<>>
                /\ qres.error # "none"
          /\ StoredTexts # {} =>
                \/ ~qres.success /\ qres.error = "str(e)"
                \/ /\ qres.success /\ qres.error = "none"
                   /\ \E m \in StoredTexts :
                         /\ \A t \in StoredTexts : TextLeq(t, m)
                         /\ qres.timestamp = <<m>>

----------------
(* SpecState: the current-state fetch of the loader and of the dashboard    *)
(* client, called for either sensor under every answer of the remote.  The  *)
(* current state of a sensor is numeric, non-numeric, null or lacks the     *)
(* state field.                                                             *)

StateKinds == RecordKinds \cup {"missing"}

CurrentStates ==
    {Record(Base, 0, "num", v) : v \in Values}
        \cup {Record(Base, 0, k, 0) : k \in StateKinds \ {"num"}}

InitState ==
    /\ now = Base
    /\ StoreInit
    /\ qres = NoQuery
    /\ remote \in [Series -> {<<r>> : r \in CurrentStates}]
    /\ LoaderInit
    /\ SchedulerInit(FALSE)

\* HomeAssistantLoader.fetch_sensor_state is called
FetchSensorState ==
    \E s \in Series, outcome \in StateOutcomes :
        /\ qres = NoQuery
        /\ LET r == fetch_sensor_state(s, outcome)
           IN  qres' = [kind |-> "fetch_sensor_state", series |-> s,
                        outcome |-> outcome, value |-> r.value, exc |-> r.exc]
        /\ UNCHANGED <<now, storeVars, remote, fetchVars, loaderVars, schedVars>>

\* HomeAssistantClient.get_entity_state is called
GetEntityState ==
    \E s \in Series, outcome \in ClientOutcomes :
        /\ qres = NoQuery
        /\ LET r == get_entity_state(s, outcome)
           IN  qres' = [kind |-> "get_entity_state", series |-> s,
                        outcome |-> outcome, value |-> r.value, exc |-> r.exc]
        /\ UNCHANGED <<now, storeVars, remote, fetchVars, loaderVars, schedVars>>

NextState == FetchSensorState \/ GetEntityState \/ Respond

SpecState == InitState /\ [][NextState]_vars

----------------------------------------------------------------------------
(* Properties of the current-state fetch (SpecState) *)

\* C17: the current-state fetch returns a reading or None and never raises
\* to its caller, for every network failure, error status and malformed
\* payload (missing, non-numeric or null state).
C17_CurrentStateNeverRaises ==
    /\ qres.kind = "fetch_sensor_state" =>
          /\ qres.exc = "none"
          /\ qres.value = <<>> \/ \E v \in Values : qres.value = <<v>>
    /\ qres.kind = "get_entity_state" =>
          /\ qres.exc = "none"
          /\ qres.value = NoState \/ qres.value \in CurrentStates

----------------
(* SpecMetadata: update_metadata and get_metadata called key by key on the  *)
(* metadata table of the dashboard database.  The values are the timestamp  *)
(* texts the jobs write.                                                    *)

MetadataValues == {isoformat(Base + k) : k \in 0..MaxClock}

SchedRest == <<is_running, weather_data, last_fetch_time, fetch_lock, jpc,
               historical_data, hidx, stored_count, njobs, db_errors,
               history_calls, missing, scheduler>>

InitMetadata ==
    /\ now = Base
    /\ StoreInit
    /\ qres = NoQuery
    /\ remote = [s \in Series |-> <<>>]
    /\ LoaderInit
    /\ SchedulerInit(TRUE)

\* db.update_metadata(key, value); err: the statement raises and nothing is
\* committed
MUpdate ==
    \E k \in MetadataKeys, v \in MetadataValues, err \in BOOLEAN :
        /\ qres = NoQuery
        /\ metadata' = IF err THEN metadata ELSE update_metadata(metadata, k, v)
        /\ qres' = [kind |-> "update_metadata", key |-> k, value |-> v,
                    raised |-> err]
        /\ UNCHANGED <<now, storeVars, remote, fetchVars, loaderVars, SchedRest>>

\* db.get_metadata(key)
MGet ==
    \E k \in MetadataKeys :
        /\ qres = NoQuery
        /\ qres' = [kind |-> "get_metadata", key |-> k,
                    value |-> get_metadata(metadata, k)]
        /\ UNCHANGED <<now, storeVars, remote, fetchVars, loaderVars, schedVars>>

NextMetadata == MUpdate \/ MGet \/ Respond

SpecMetadata == InitMetadata /\ [][NextMetadata]_vars

----------------------------------------------------------------------------
(* Properties of the metadata table (SpecMetadata) *)

\* the call update_metadata(k, .) has just committed
Updates(k) ==
    /\ qres = NoQuery
    /\ qres'.kind = "update_metadata" /\ ~qres'.raised
    /\ qres'.key = k

\* C18: metadata is an upsert-by-key, last-write-wins map: there is never
\* more than one row per key; after update_metadata(k, v) get_metadata(k) is v
\* and every other key reads as before; no other step changes what a key
\* reads, so a key that was never written reads None; get_metadata returns
\* what the key reads.
C18_MetadataUpsert ==
    /\ [](\A k \in MetadataKeys : Cardinality({r \in metadata : r.key = k}) <= 1)
    /\ [](metadata = {} => \A k \in MetadataKeys : get_metadata(metadata, k) = NoMetadata)
    /\ [][\A k \in MetadataKeys :
            IF Updates(k)
            THEN get_metadata(metadata', k) = [kind |-> "str", value |-> qres'.value]
            ELSE get_metadata(metadata', k) = get_metadata(metadata, k)]_vars
    /\ [](qres.kind = "get_metadata" =>
            \/ qres.value = NoMetadata /\ \A r \in metadata : r.key # qres.key
            \/ \E r \in metadata :
                  r.key = qres.key /\ qres.value = [kind |-> "str", value |-> r.value])

\* a key has just been updated while another key holds a value of its own
\* and the third was never written
C18_Witness ==
    /\ qres.kind = "update_metadata" /\ ~qres.raised
    /\ qres.key = "last_fetch_time" /\ qres.value = isoformat(Base)
    /\ metadata = {[key |-> "last_fetch_time", value |-> isoformat(Base)],
                   [key |-> "last_historical_fetch", value |-> isoformat(Base + 1)]}
    /\ get_metadata(metadata, "latest_forecast") = NoMetadata

----------------------------------------------------------------------------
(* Spec: the loader (load_last_month_data, then run after run) against a   *)
(* remote whose history is drawn at the start, and the plot route reading  *)
(* the tables it fills.  The history of one series holds up to MaxRecs     *)
(* records, two chunk spans back (on a sub-window boundary of the month     *)
(* load) or at the start (inside the last hour).  The loader reads the      *)
(* clock only when an operation starts, so the clock advances between       *)
(* operations; an operation meets at most one store error.  The plot route  *)
(* is followed between operations.                                          *)

MaxRecs == 2                 \* records in the remote history of a series

InstPool == {Base - 2 * max_days * Day, Base}

RecordSet ==
    {Record(t, 0, "num", v) : t \in InstPool, v \in Values}
    \cup {Record(t, 0, k, 0) : t \in InstPool, k \in RecordKinds \ {"num"}}

Histories ==
    {h \in UNION {[1..n -> RecordSet] : n \in 0..MaxRecs} :
        \A i, j \in 1..Len(h) : i < j => h[i].t <= h[j].t}

Init ==
    /\ now = Base
    /\ StoreInit
    /\ qres = NoQuery
    /\ \E s \in Series, h \in Histories :
          remote = [x \in Series |-> IF x = s THEN h ELSE <<>>]
    /\ LoaderInit
    /\ SchedulerInit(FALSE)

LoadLastMonth ==
    /\ load_last_month_data
    /\ qres = NoQuery
    /\ qres' = NoQuery
    /\ UNCHANGED <<now, remote, schedVars>>

Run ==
    /\ run
    /\ qres = NoQuery
    /\ qres' = NoQuery
    /\ UNCHANGED <<now, remote, schedVars>>

FetchChunk ==
    \E outcome \in NetOutcomes :
        /\ plan # <<>>
        /\ fetch_chunk(Head(plan).series, outcome)
        /\ qres = NoQuery
        /\ qres' = NoQuery
        /\ UNCHANGED <<now, remote, schedVars>>

FetchReturn ==
    /\ fetch_return
    /\ qres = NoQuery
    /\ qres' = NoQuery
    /\ UNCHANGED <<now, remote, schedVars>>

StorePoint ==
    \E e \in BOOLEAN :
        /\ e => ~storeErr
        /\ store_point(e)
        /\ qres = NoQuery
        /\ qres' = NoQuery
        /\ UNCHANGED <<now, remote, schedVars>>

StoreReturn ==
    /\ store_return
    /\ qres = NoQuery
    /\ qres' = NoQuery
    /\ UNCHANGED <<now, remote, schedVars>>

Plot ==
    \E d \in Series :
        /\ lpc = "sleep"
        /\ qres = NoQuery
        /\ plot(d, "24h", FALSE)

Tick ==
    /\ lpc = "sleep"
    /\ now < Base + MaxClock
    /\ now' = now + 1
    /\ qres = NoQuery
    /\ qres' = NoQuery
    /\ UNCHANGED <<storeVars, remote, fetchVars, loaderVars, schedVars>>

Next ==
    \/ LoadLastMonth \/ Run \/ FetchChunk \/ FetchReturn
    \/ StorePoint \/ StoreReturn \/ Plot \/ Respond \/ Tick

Spec == Init /\ [][Next]_vars

----------------------------------------------------------------------------
(* SpecRefetch: Spec against a remote whose records lie in the last two      *)
(* hours, so that the last hour fetched by run starts between two records   *)
(* of the last sub-window of the month load.                                 *)

RefetchPool == {Base - 2 * Hour, Base}

RefetchHistories ==
    {h \in UNION {[1..n -> {Record(t, 0, k, 1) : t \in RefetchPool, k \in RecordKinds}]
                     : n \in 0..MaxRecs} :
        \A i, j \in 1..Len(h) : i < j => h[i].t < h[j].t}

InitRefetch ==
    /\ now = Base
    /\ StoreInit
    /\ qres = NoQuery
    /\ \E s \in Series, h \in RefetchHistories :
          remote = [x \in Series |-> IF x = s THEN h ELSE <<>>]
    /\ LoaderInit
    /\ SchedulerInit(FALSE)

SpecRefetch == InitRefetch /\ [][Next]_vars

----------------------------------------------------------------------------
(* Properties of the loader (Spec, SpecRefetch) *)

\* C2: the series are append-only and immutable: a timestamp stored in a
\* series is still stored, with the same value, after every step of the loader
\* and of the plot route, an insert of the same timestamp with another value
\* included.
C2_AppendOnly ==
    [][\A s \in Series : \A x \in Keys(table[s]) :
          /\ x \in Keys(table'[s])
          /\ ValueAt(table'[s], x) = ValueAt(table[s], x)]_vars

\* the loader has just tried to store a stored timestamp with another value
C2_Witness ==
    /\ lpc = "store" /\ idx > 1
    /\ lastStore.dup /\ ~lastStore.err
    /\ LET s == Head(plan).series
           pt == sensor_data[s][idx - 1]
       IN  /\ adapt_datetime(pt[1]) \in Keys(table[s])
           /\ ValueAt(table[s], adapt_datetime(pt[1])) # pt[2]

OpDone == lpc = "sleep" /\ nops >= 1

\* a later backfill has finished: every request of this operation and of the
\* earlier ones was answered, and every insert of theirs reached the database.
\* Its window lies in the window of the first one, and the remote is the same.
SecondRun ==
    /\ OpDone /\ nops >= 2
    /\ cleanBefore /\ failedReqs = 0 /\ ~storeErr

\* C3: a backfill run again over an overlapping window, the remote returning
\* the same records, leaves both tables as they were after the first run and
\* reports every fetched point skipped.
C3_BackfillIdempotent ==
    SecondRun =>
        /\ table = tableAtOpStart
        /\ \A s \in Series : counts[s] = <<0, Len(sensor_data[s])>>

\* C8: when one sub-window request of a backfill failed and the others were
\* answered, every well-formed point of the answers is in the store when the
\* backfill has finished (no insert having met a store error).
C8_PartialFailure ==
    (OpDone /\ failedReqs = 1 /\ ~storeErr) =>
        \A s \in Series : \A pt \in validReturned[s] :
            adapt_datetime(pt[1]) \in Keys(table[s])

----------------------------------------------------------------------------
(* SpecFetcher: the scheduler after start(), its three jobs fired in any     *)
(* order (the intervals are configuration), against a remote whose history  *)
(* is drawn at the start.  The clock advances while fetch_lock is free.      *)

SchedFrame ==
    UNCHANGED <<now, storeVars, qres, remote, fetchVars, loaderVars, missing, scheduler>>

\* the history of an entity holds one record per instant
StateHistories ==
    {h \in Histories : \A i, j \in 1..Len(h) : i < j => h[i].t < h[j].t}

InitFetcher ==
    /\ now = Base
    /\ StoreInit
    /\ qres = NoQuery
    /\ \E s \in Series, h \in StateHistories :
          remote = [x \in Series |-> IF x = s THEN h ELSE <<>>]
    /\ LoaderInit
    /\ SchedulerInit(TRUE)

SchedTrigger == \E j \in Jobs : Trigger(j) /\ SchedFrame

SchedInitialCheck == \E zone \in HostZones : initial_data_fetch(zone) /\ SchedFrame

SchedAcquire == \E j \in Jobs : acquire(j) /\ SchedFrame

SchedHistFetch ==
    \E j \in Jobs, outcome \in ClientOutcomes : hist_fetch(j, outcome) /\ SchedFrame

SchedHistInsert ==
    \E j \in Jobs, err \in BOOLEAN :
        /\ err => db_errors < MaxDbErrors
        /\ hist_insert(j, err)
        /\ SchedFrame

SchedHistNext ==
    \E j \in Jobs, m \in DbOutcomes :
        /\ m # "ok" => db_errors < MaxDbErrors
        /\ hist_next(j, m)
        /\ SchedFrame

SchedCurState ==
    \E j \in Jobs, outcome \in ClientOutcomes, err \in BOOLEAN :
        /\ err => db_errors < MaxDbErrors
        /\ cur_state(j, outcome, err)
        /\ SchedFrame

SchedCurMeta ==
    \E j \in Jobs, m \in DbOutcomes :
        /\ m # "ok" => db_errors < MaxDbErrors
        /\ cur_meta(j, m)
        /\ SchedFrame

SchedTick ==
    /\ is_running
    /\ fetch_lock = "free"
    /\ now < Base + MaxClock
    /\ now' = now + 1
    /\ UNCHANGED <<storeVars, qres, remote, fetchVars, loaderVars, schedVars>>

NextFetcher ==
    \/ SchedTrigger \/ SchedInitialCheck \/ SchedAcquire
    \/ SchedHistFetch \/ SchedHistInsert \/ SchedHistNext
    \/ SchedCurState \/ SchedCurMeta \/ SchedTick

SpecFetcher == InitFetcher /\ [][NextFetcher]_vars

----------------------------------------------------------------------------
(* Properties of the scheduler (SpecFetcher) *)

\* the jobs inside the fetch-and-store section of one of the two bodies
InSection == {j \in Jobs : jpc[j] \in HistPositions \cup CurPositions}

\* C15: at most one background fetch operation (of the poll, the historical
\* job and the initial fetch) is inside its fetch-and-store section, and it
\* is the holder of fetch_lock; a step that writes the store is taken by
\* that holder, which is the same job before and after the write.
C15_MutualExclusion ==
    /\ [](Cardinality(InSection) <= 1)
    /\ [](\A j \in InSection : fetch_lock = j)
    /\ [](InSection = {} => fetch_lock = "free")
    /\ [][(weather_data' # weather_data \/ metadata' # metadata) =>
            /\ fetch_lock # "free"
            /\ InSection = {fetch_lock}
            /\ \A j \in Jobs \ {fetch_lock} : jpc'[j] = jpc[j]]_vars

\* the poll waits for the lock while the historical job stores a history
C15_Witness ==
    /\ jpc["weather_fetch_job"] = "cur_wait"
    /\ jpc["historical_fetch_job"] = "hist_temp_store"
    /\ fetch_lock = "historical_fetch_job"
    /\ weather_data # <<>>

RowsOf(entity, timestamp) ==
    {i \in 1..Len(weather_data) :
        /\ weather_data[i].entity_id = entity
        /\ weather_data[i].timestamp = timestamp}

\* C4: weather_data holds at most one row per (sensor entity, timestamp).
C4_OneRowPerEntityTimestamp ==
    \A i \in 1..Len(weather_data) :
        Cardinality(RowsOf(weather_data[i].entity_id, weather_data[i].timestamp)) <= 1

----------------------------------------------------------------------------------------------------------------------------------------
(* SpecServe: the dashboard application: the scheduler after start() with   *)
(* its three jobs, and the reads of the request-serving path taken at any   *)
(* moment.  The temperature sensor holds one reading of the last hour.      *)

InitServe ==
    /\ now = Base
    /\ StoreInit
    /\ qres = NoQuery
    /\ remote = [x \in Series |->
                    IF x = "temperature"
                    THEN <<Record(Base - Hour, 0, "num", 1)>> ELSE <<>>]
    /\ LoaderInit
    /\ SchedulerInit(TRUE)

\* a request that reads the store is served
ServeRead == \E op \in ReadOps : read(op)

NextServe ==
    \/ SchedTrigger \/ SchedInitialCheck \/ SchedAcquire
    \/ SchedHistFetch \/ SchedHistInsert \/ SchedHistNext
    \/ SchedCurState \/ SchedCurMeta
    \/ ServeRead \/ Respond

SpecServe == InitServe /\ [][NextServe]_vars

----------------------------------------------------------------------------
(* Properties of the reads (SpecServe) *)

\* C16: a store read of the request-serving path never waits for the fetch
\* guard: whenever no request is being served each read can be started,
\* whatever the state of fetch_lock and of the jobs, a started read can be
\* completed, and a read changes neither the lock nor a job.
C16_ReadsNeverBlocked ==
    /\ [](qres = NoQuery => \A op \in ReadOps : ENABLED read(op))
    /\ [](qres.kind = "read" => ENABLED Respond)
    /\ [][(qres'.kind = "read" /\ qres' # qres) => schedVars' = schedVars]_vars

\* a read returned the rows the historical job had stored while that job,
\* the only one started, still holds the lock and is about to call the remote
C16_Witness ==
    /\ qres.kind = "read" /\ qres.op = "recent" /\ qres.result # <<>>
    /\ njobs = 1
    /\ fetch_lock = "historical_fetch_job"
    /\ jpc["historical_fetch_job"] = "hist_hum"

----------------------------------------------------------------------------
(* SpecStart: the dashboard application from its construction: start() is  *)
(* called (by main, and by the hook of each request until it succeeds) with *)
(* a configuration that lacks any of the required parameters or none, and   *)
(* the scheduler runs the jobs once it is started.                          *)

InitStart ==
    /\ now = Base
    /\ StoreInit
    /\ qres = NoQuery
    /\ remote = [x \in Series |->
                    IF x = "temperature"
                    THEN <<Record(Base - Hour, 0, "num", 1)>> ELSE <<>>]
    /\ LoaderInit
    /\ \E m \in SUBSET RequiredParams : SchedulerWith(FALSE, <<>>, m)

Start == start

NextStart ==
    \/ Start \/ Respond
    \/ SchedTrigger \/ SchedInitialCheck \/ SchedAcquire
    \/ SchedHistFetch \/ SchedHistInsert \/ SchedHistNext
    \/ SchedCurState \/ SchedCurMeta

SpecStart == InitStart /\ [][NextStart]_vars

----------------------------------------------------------------------------
(* Properties of the start (SpecStart) *)

\* C19: when a required connection parameter is missing, start() raises,
\* is_running stays false, the scheduler is never started and no poll,
\* backfill or initial fetch ever executes.
C19_ConfigErrorFatal ==
    missing # {} =>
        /\ qres.kind = "start" => qres.exc = "ValueError"
        /\ ~is_running
        /\ njobs = 0
        /\ \A j \in Jobs : jpc[j] = "idle"
        /\ fetch_lock = "free"
        /\ weather_data = <<>> /\ metadata = {} /\ history_calls = <<>>

\* start() has raised for a configuration that lacks the token only
C19_Witness ==
    /\ missing = {"HOME_ASSISTANT_TOKEN"}
    /\ qres.kind = "start" /\ qres.exc = "ValueError"
    /\ ~is_running

----------------------------------------------------------------------------
(* SpecInitial: the scheduler started over a database that earlier polls    *)
(* have filled: the latest row is two days old, exactly two update          *)
(* intervals old, or one tick younger than that.                            *)

EarlierInstants ==
    {Base - 2 * Day, Base - 2 * UPDATE_INTERVAL * Second,
     Base - 2 * UPDATE_INTERVAL * Second + 1}

InitInitial ==
    /\ now = Base
    /\ StoreInit
    /\ qres = NoQuery
    /\ remote = [x \in Series |->
                    IF x = "temperature"
                    THEN <<Record(Base - Hour, 0, "num", 1)>> ELSE <<>>]
    /\ LoaderInit
    /\ \E rows \in UNION {[1..n -> {WeatherRow(Record(t, 0, "num", 1), "temperature") :
                                       t \in EarlierInstants}] : n \in 0..MaxRows} :
           SchedulerOver(TRUE, rows)

NextInitial ==
    \/ SchedTrigger \/ SchedInitialCheck \/ SchedAcquire
    \/ SchedHistFetch \/ SchedHistInsert \/ SchedHistNext
    \/ SchedCurState \/ SchedCurMeta

SpecInitial == InitInitial /\ [][NextInitial]_vars

----------------------------------------------------------------------------
(* Properties of the initial fetch (SpecInitial) *)

\* the age of the latest stored point: now minus the greatest stored instant
LatestAge ==
    now - (CHOOSE t \in {Instant(weather_data[i].timestamp) : i \in 1..Len(weather_data)} :
              \A i \in 1..Len(weather_data) : Instant(weather_data[i].timestamp) <= t)

\* the history requests of the initial fetch, in order
InitialCalls == SelectSeq(history_calls, LAMBDA c : c.job = "initial_fetch_job")

\* the position the initial fetch comes from when it enters a position
CameFrom(pc) ==
    CASE pc = "check" -> {"idle"}
      [] pc = "hist_wait" -> {"check"}
      [] pc = "hist_temp" -> {"hist_wait"}
      [] pc = "hist_temp_store" -> {"hist_temp"}
      [] pc = "hist_hum" -> {"hist_temp_store"}
      [] pc = "hist_hum_store" -> {"hist_hum"}
      [] pc = "cur_wait" -> {"hist_hum_store"}
      [] pc = "cur_temp" -> {"cur_wait"}
      [] pc = "cur_hum" -> {"cur_temp"}
      [] pc = "cur_meta" -> {"cur_hum"}
      [] pc = "done" -> {"check", "cur_meta"}
      [] OTHER -> {}

\* C21: initial_data_fetch returns at once when the latest stored point is
\* younger than two update intervals; with no stored row or an older latest
\* row it runs the historical fetch, which asks 720 hours of the temperature
\* and then of the humidity history, and after it one current-state fetch
\* (temperature state, humidity state, last_fetch_time), and nothing else.
C21_StartupDecision ==
    /\ [][(jpc["initial_fetch_job"] = "check" /\ jpc'["initial_fetch_job"] # "check") =>
            jpc'["initial_fetch_job"] = IF weather_data # <<>> /\ LatestAge < 2 * UPDATE_INTERVAL * Second
                      THEN "done" ELSE "hist_wait"]_vars
    /\ [][jpc'["initial_fetch_job"] # jpc["initial_fetch_job"] => jpc["initial_fetch_job"] \in CameFrom(jpc'["initial_fetch_job"])]_vars
    /\ [](jpc["initial_fetch_job"] \in {"idle", "check", "hist_wait", "hist_temp"} => InitialCalls = <<>>)
    /\ [](jpc["initial_fetch_job"] \in {"hist_temp_store", "hist_hum"} =>
            /\ Len(InitialCalls) = 1
            /\ InitialCalls[1].series = "temperature")
    /\ [](jpc["initial_fetch_job"] \in {"hist_hum_store", "cur_wait"} \cup CurPositions =>
            /\ Len(InitialCalls) = 2
            /\ InitialCalls[1].series = "temperature"
            /\ InitialCalls[2].series = "humidity")
    /\ [](\A i \in 1..Len(InitialCalls) :
            InitialCalls[i].end - InitialCalls[i].start = 720 * Hour)

----------------------------------------------------------------------------
(* SpecBackfill: the two backfill paths.  The loader and the scheduler are   *)
(* separate programs that share nothing but the remote, so a behaviour       *)
(* follows one of them: either a caller of fetch_historical_data, with the   *)
(* window and the maximum span drawn from WindowLengths and MaxDaysInputs,   *)
(* or the jobs of the started scheduler that run the historical fetch, at   *)
(* one reading of the clock.  While a running call or job can take a step,  *)
(* one is taken (weak fairness): a thread that is not blocked goes on.       *)

MaxWindowDays == 45          \* the longest window asked of fetch_historical_data

WindowLengths ==
    {d * Day + x : d \in 0..MaxWindowDays, x \in {0, 1, Hour}} \ {0}

MaxDaysInputs == {7, max_days}

\* one record at the end of every window: well-formed, or with a null state
BackfillRemotes ==
    { [s \in Series |-> IF s = "temperature"
                        THEN <<Record(Base, 0, "num", 1)>> ELSE <<>>],
      [s \in Series |-> IF s = "temperature"
                        THEN <<Record(Base, 0, "null", 0)>> ELSE <<>>] }

InitBackfill ==
    /\ now = Base
    /\ StoreInit
    /\ qres = NoQuery
    /\ remote \in BackfillRemotes
    /\ LoaderInit
    /\ \E running \in BOOLEAN : SchedulerInit(running)

\* fetch_historical_data(entity_id, start_time, end_time, max_days) is called
CallFetch ==
    \E s \in Series, len \in WindowLengths, m \in MaxDaysInputs :
        /\ ~is_running
        /\ lpc = "boot"
        /\ BeginOp(<<Call("fetch_historical_data", s)>>,
                   [start_time |-> now - len, end_time |-> now, max_days |-> m])
        /\ qres = NoQuery
        /\ qres' = NoQuery
        /\ UNCHANGED <<now, remote, schedVars>>

\* the scheduler fires one of the two jobs that run the historical fetch
BackfillTrigger ==
    \E j \in {"historical_fetch_job", "initial_fetch_job"} : Trigger(j) /\ SchedFrame

NextBackfill ==
    \/ CallFetch \/ FetchChunk \/ FetchReturn
    \/ BackfillTrigger \/ SchedInitialCheck \/ SchedAcquire
    \/ SchedHistFetch \/ SchedHistInsert \/ SchedHistNext
    \/ SchedCurState \/ SchedCurMeta

\* a step of a running call or job: every step but the arrival of a call,
\* the firing of a job and the passing of time
BackfillStep ==
    \/ FetchChunk \/ FetchReturn
    \/ SchedInitialCheck \/ SchedAcquire
    \/ SchedHistFetch \/ SchedHistInsert \/ SchedHistNext
    \/ SchedCurState \/ SchedCurMeta

SpecBackfill == InitBackfill /\ [][NextBackfill]_vars /\ WF_vars(BackfillStep)

----------------------------------------------------------------------------
(* Properties of the two backfill paths (SpecBackfill) *)

CeilDiv(a, b) == (a + b - 1) \div b

\* C7: when the loop of fetch_historical_data has ended, it has issued
\* ceil((end - start) / M) requests, whatever their outcomes: the first
\* sub-window starts at start, the last ends at end, each one starts where the
\* one before it ends, and none is longer than M.
C7_ChunkingComplete ==
    FetchLoopDone =>
        LET n == Len(requests)
            M == win.max_days * Day
        IN  /\ n = CeilDiv(win.end_time - win.start_time, M)
            /\ requests[1].start = win.start_time
            /\ requests[n].end = win.end_time
            /\ \A i \in 1..(n - 1) : requests[i + 1].start = requests[i].end
            /\ \A i \in 1..n : requests[i].end - requests[i].start <= M

\* a 45-day window with a maximum span of 10 days has been fetched in 5 requests
C7_Witness ==
    /\ FetchLoopDone
    /\ win.end_time - win.start_time = 45 * Day
    /\ win.max_days = 10
    /\ Len(requests) = 5

\* C9: the backfill completes without raising for every pattern of request
\* failures: no exception leaves fetch_historical_data or a job of the
\* scheduler, a fetch_historical_data whose requests all failed ends its loop
\* with an empty list to return, every call of fetch_historical_data returns,
\* and every run of fetch_and_store_historical_data returns to its caller.
C9_BackfillCompletes ==
    /\ [](lpc # "raised" /\ \A j \in Jobs : jpc[j] # "raised")
    /\ []((FetchLoopDone /\ okChunks = 0) => all_historical_data = <<>>)
    /\ (lpc = "fetch" ~> lpc = "sleep")
    /\ \A j \in Jobs : (jpc[j] \in HistPositions ~> jpc[j] = AfterHist(j))

\* every request of a fetch_historical_data over several sub-windows failed,
\* against a remote that holds a record, and the loop has ended
C9_Witness ==
    /\ FetchLoopDone
    /\ Len(requests) >= 2
    /\ failedReqs = Len(requests)
    /\ remote[Head(plan).series] # <<>>

\* C22: every history request of a backfill covers a sub-window of at most
\* max_days (10) days: the requests of the loader's fetch_historical_data
\* and the requests the scheduler's historical fetch issues through
\* get_entity_history and get_humidity_history.
C22_SubWindowBound ==
    /\ \A i \in 1..Len(requests) :
           requests[i].end - requests[i].start <= max_days * Day
    /\ \A i \in 1..Len(history_calls) :
           history_calls[i].end - history_calls[i].start <= max_days * Day

\* the requests of the loader alone
LoaderSubWindowBound ==
    \A i \in 1..Len(requests) :
        requests[i].end - requests[i].start <= max_days * Day

\* C23: within one invocation of fetch_historical_data the sub-windows
\* requested follow one another without overlap, so none is requested twice;
\* a request that fails is counted once and the loop goes on with the next
\* sub-window, as after a request that succeeds.
C23_NoImmediateRetry ==
    /\ [](\A i, k \in 1..Len(requests) :
            /\ requests[i].start < requests[i].end
            /\ i < k => requests[i].end <= requests[k].start)
    /\ [][requests' # requests /\ requests' # <<>> =>
            /\ Len(requests') = Len(requests) + 1
            /\ requests'[Len(requests')].start = current_start
            /\ current_start' = requests'[Len(requests')].end
            /\ failedReqs' \in {failedReqs, failedReqs + 1}]_vars
    /\ [][failedReqs' # failedReqs /\ failedReqs' # 0 =>
            Len(requests') = Len(requests) + 1]_vars

\* the three sub-windows of the last 30 days have been requested, each once,
\* and the first two requests failed
C23_Witness ==
    /\ FetchLoopDone
    /\ Len(requests) = 3
    /\ failedReqs >= 2
    /\ okChunks = 1

\* C24: a malformed record is skipped alone: every well-formed record of a
\* sub-window that was fetched successfully, before and after a bad one, is
\* among the points fetch_historical_data has collected for its series.
C24_ParseErrorSkipsOneRecord ==
    (lpc = "fetch" /\ plan # <<>>) =>
        validReturned[Head(plan).series] \subseteq
            {all_historical_data[i] : i \in 1..Len(all_historical_data)}

----------------------------------------------------------------------------
(* SpecZones: Spec against a remote that stamps its records in UTC or with  *)
(* the offset of the station's zone.                                        *)

ZoneHistories ==
    {h \in UNION {[1..n -> {Record(t, off, "num", 1) :
                               t \in RefetchPool, off \in {0, TzOffset}}]
                     : n \in 0..MaxRecs} :
        \A i, j \in 1..Len(h) : i < j => h[i].t < h[j].t}

InitZones ==
    /\ now = Base
    /\ StoreInit
    /\ qres = NoQuery
    /\ \E s \in Series, h \in ZoneHistories :
          remote = [x \in Series |-> IF x = s THEN h ELSE <<>>]
    /\ LoaderInit
    /\ SchedulerInit(FALSE)

SpecZones == InitZones /\ [][Next]_vars

\* C25: the timestamp stored for a history record is the instant of the
\* record written in UTC without a zone, whatever the offset the record's
\* timestamp carries.
C25_TimestampNormalized ==
    \A s \in Series : \A x \in Keys(table[s]) :
        \E k \in 1..Len(remote[s]) : x = adapt_datetime(remote[s][k].t)

\* the same for the records stamped in UTC ('Z' or +00:00) alone
UtcTimestampKept ==
    \A s \in Series :
        (\A k \in 1..Len(remote[s]) : remote[s][k].off = 0) =>
            \A x \in Keys(table[s]) :
                \E k \in 1..Len(remote[s]) : x = adapt_datetime(remote[s][k].t)

----------------------------------------------------------------------------
(* SpecStop: the dashboard application of SpecServe's start, its jobs, and   *)
(* the shutdown signal that calls stop() at any moment.                     *)

StopFrame == UNCHANGED <<now, storeVars, qres, remote, fetchVars, loaderVars>>

StopShutdown == stop_shutdown /\ StopFrame

StopReturn == stop_return /\ StopFrame

NextStop ==
    \/ SchedTrigger \/ SchedInitialCheck \/ SchedAcquire
    \/ SchedHistFetch \/ SchedHistInsert \/ SchedHistNext
    \/ SchedCurState \/ SchedCurMeta
    \/ StopShutdown \/ StopReturn

SpecStop == InitServe /\ [][NextStop]_vars

\* C26: once stop() has returned (is_running is false) no job run starts;
\* the fetch that was running when stop() was called has finished by then,
\* and at every moment each row of the store is a whole row of a batch.
C26_Shutdown ==
    /\ [][~is_running => (njobs' = njobs /\ jpc' = jpc)]_vars
    /\ [](~is_running => \A j \in Jobs : jpc[j] \in Resting /\ fetch_lock = "free")
    /\ [](\A i \in 1..Len(weather_data) :
            \E s \in Series : \E k \in 1..Len(remote[s]) :
                weather_data[i] = WeatherRow(remote[s][k], s))

\* stop() has returned after the historical job, the only one that ran and
\* in flight when shutdown() began, stored its batch
C26_Witness ==
    /\ ~is_running
    /\ scheduler = "stopped"
    /\ njobs = 1
    /\ jpc["historical_fetch_job"] = "idle"
    /\ weather_data # <<>>

\* stop() waits while the historical job stores its batch
StopWaitsForFetch ==
    /\ scheduler = "shutdown"
    /\ is_running
    /\ jpc["historical_fetch_job"] = "hist_temp_store"
    /\ fetch_lock = "historical_fetch_job"

\* C27: the poll, the only job run so far, reaches the end of its cycle over
\* a store it found empty: when no reading was stored and no statement
\* failed, both requests returned None and the cycle leaves the
\* last_fetch_time metadata unchanged; when a reading was stored and the
\* metadata statement succeeds, last_fetch_time is the cycle's time.
C27_LastSuccessfulFetch ==
    /\ [][(/\ jpc["weather_fetch_job"] = "cur_meta"
           /\ jpc'["weather_fetch_job"] # "cur_meta"
           /\ njobs = 1 /\ weather_data = <<>> /\ db_errors = 0)
          => metadata' = metadata]_vars
    /\ [][(/\ jpc["weather_fetch_job"] = "cur_meta"
           /\ jpc'["weather_fetch_job"] # "cur_meta"
           /\ njobs = 1 /\ weather_data # <<>> /\ db_errors' = db_errors)
          => get_metadata(metadata', "last_fetch_time")
                 = [kind |-> "str", value |-> isoformat(now)]]_vars

\* the second part alone: a cycle that stored a reading records its time
StoredCycleRecorded ==
    [][(/\ jpc["weather_fetch_job"] = "cur_meta"
        /\ jpc'["weather_fetch_job"] # "cur_meta"
        /\ njobs = 1 /\ weather_data # <<>> /\ db_errors' = db_errors)
       => get_metadata(metadata', "last_fetch_time")
              = [kind |-> "str", value |-> isoformat(now)]]_vars

----------------------------------------------------------------------------
(* SpecLookup: the two latest-point lookups: get_latest_data over a          *)
(* temperature table of the loader, get_latest_weather_data over rows the    *)
(* remote stamped in UTC or with the offset of the station's zone.           *)

StampedRows ==
    {WeatherRow(Record(t, off, "num", 1), "temperature") :
        t \in {Base - Hour, Base}, off \in {0, TzOffset}}

InitLookup ==
    /\ now = Base
    /\ ret = FALSE
    /\ lastStore = [op |-> "none", dup |-> FALSE, err |-> FALSE]
    /\ qres = NoQuery
    /\ remote = [s \in Series |-> <<>>]
    /\ LoaderInit
    /\ \E t \in LoadedTables,
          rows \in UNION {[1..n -> StampedRows] : n \in 0..MaxRows} :
          /\ table = [s \in Series |-> IF s = "temperature" THEN t ELSE <<>>]
          /\ SchedulerOver(TRUE, rows)

NextLookup == QLatest \/ ServeRead \/ Respond

SpecLookup == InitLookup /\ [][NextLookup]_vars

\* get_latest_data reports the value of the temperature row of the highest
\* instant
WebLatestIsHighest ==
    (qres.kind = "latest" /\ qres.error = "none" /\ table["temperature"] # <<>>) =>
        \E i \in 1..Len(table["temperature"]) :
            /\ \A k \in 1..Len(table["temperature"]) :
                   fromisoformat(table["temperature"][k].timestamp)
                       <= fromisoformat(table["temperature"][i].timestamp)
            /\ qres.temperature = <<table["temperature"][i].value>>

\* get_latest_weather_data returns None on an empty table, else a row of the
\* highest instant
DbLatestIsHighest ==
    (qres.kind = "read" /\ qres.op = "latest") =>
        /\ (weather_data = <<>>) = (qres.result = {})
        /\ \A r \in qres.result : \A i \in 1..Len(weather_data) :
               Instant(weather_data[i].timestamp) <= Instant(r.timestamp)

\* C29: the latest-point lookup returns the stored row of the highest
\* instant, None when the store is empty, whatever the order the rows were
\* inserted in and whatever the form of the stored timestamp texts; for
\* get_latest_data and for get_latest_weather_data.
C29_LatestIsHighestInstant == WebLatestIsHighest /\ DbLatestIsHighest

----------------------------------------------------------------------------
(* SpecLock: the started scheduler of SpecServe and its three jobs.  A job   *)
(* that can take a step takes one (weak fairness): its thread is not        *)
(* blocked.                                                                  *)

NextLock ==
    \/ SchedTrigger \/ SchedInitialCheck \/ SchedAcquire
    \/ SchedHistFetch \/ SchedHistInsert \/ SchedHistNext
    \/ SchedCurState \/ SchedCurMeta

\* a step of a job that was fired
JobStep ==
    \/ SchedInitialCheck \/ SchedAcquire
    \/ SchedHistFetch \/ SchedHistInsert \/ SchedHistNext
    \/ SchedCurState \/ SchedCurMeta

SpecLock == InitServe /\ [][NextLock]_vars /\ WF_vars(JobStep)

\* C30: the job that holds fetch_lock is inside one of the two bodies; a job
\* that leaves a body, by its end or by an exception of the remote call or of
\* a store write, releases the lock; a job waiting to enter a body does not
\* hold the lock (initial_data_fetch has released it after the historical
\* fetch when it waits for the current fetch); a waiting job eventually
\* enters its body and a holder eventually releases the lock.
C30_LockReleased ==
    /\ [](\A j \in Jobs : fetch_lock = j => jpc[j] \in HistPositions \cup CurPositions)
    /\ [](\A j \in Jobs : jpc[j] \in {"hist_wait", "cur_wait"} => fetch_lock # j)
    /\ [][\A j \in Jobs :
            (/\ jpc[j] \in HistPositions \cup CurPositions
             /\ jpc'[j] \notin HistPositions \cup CurPositions)
            => (fetch_lock = j /\ fetch_lock' = "free")]_vars
    /\ \A j \in Jobs : (jpc[j] \in {"hist_wait", "cur_wait"}) ~>
                           (jpc[j] \in HistPositions \cup CurPositions)
    /\ \A j \in Jobs : (fetch_lock = j) ~> (fetch_lock # j)

\* the poll waits for the lock that the initial fetch holds in its current
\* fetch, after a database statement of the initial fetch has failed
C30_Witness ==
    /\ jpc["weather_fetch_job"] = "cur_wait"
    /\ jpc["initial_fetch_job"] \in CurPositions
    /\ fetch_lock = "initial_fetch_job"
    /\ db_errors >= 1

====
